---- MODULE Spec2Model ----
(***************************************************************************)
(* A model of the office-to-md document parser                             *)
(* (src/skills/codex/office-to-md/enhanced_parser.py, doc_converter.py).    *)
(*                                                                         *)
(* A Python str is modelled as a sequence of characters, each character a  *)
(* TLA+ string; a CJK character of the source is written as a named token  *)
(* ("<lie>" for U+5217, ...), since the module is plain ASCII.             *)
(*                                                                         *)
(* The module holds one specification per part of the program:             *)
(*   SpecTable  the three table renderers and the data-row counter         *)
(*   SpecPdf    the per-page PDF pipeline (tables, detection, ordering)    *)
(*   SpecPara   the DOCX paragraph classifier on one paragraph             *)
(*   SpecDocx   the DOCX body traversal with header/footer filtering       *)
(*   SpecParse  parse_document: dispatch, failures, .doc conversion        *)
(***************************************************************************)
EXTENDS Integers, Sequences, FiniteSets, TLC

VARIABLES
    \* ---- table renderers (SpecTable)
    table_data,                 \* the cell matrix handed to a renderer
    markdown_table,             \* the renderer's result (a list of lines)
    renderer,                   \* which renderer ran
    data_rows,                  \* result of _get_table_data_from_markdown
    \* ---- PDF page pipeline (SpecPdf)
    last_table_block_indices,   \* self._last_table_block_indices
    pc,                         \* per call: position inside _parse_pdf's loop body
    page,                       \* per call: the page being processed
    tables,                     \* per call: result of _extract_pdf_tables_optimized
    content_blocks,             \* per call: result of the ContentOrderer
    markdown_content,           \* per call: lines appended for the current page
    pages_done,                 \* per call: page_num
    \* ---- DOCX (SpecPara, SpecDocx)
    paragraph,                  \* the paragraph handed to _process_docx_paragraph
    para_lines,                 \* its result
    doc,                        \* the body paragraphs of the document
    doc_pos,                    \* index of the next body element
    doc_markdown,               \* markdown_content of _parse_docx
    filter_headers_footers,     \* self.filter_headers_footers
    \* ---- parse_document (SpecParse)
    env,                        \* the file and the collaborators' behaviour
    ppc,                        \* position inside parse_document
    result,                     \* the returned dictionary
    temp_file,                  \* state of the converted temporary .docx
    conversions,                \* number of converter invocations
    \* ---- Markdown assembly (SpecClean, SpecUnits)
    body,                       \* the opened document: its file type, images, units
    unit_pos,                   \* index of the next unit (body element or page)
    unit_state,                 \* position inside _parse_docx / _parse_pdf
    markdown_lines,             \* markdown_content, the argument of _clean_markdown
    result_markdown             \* result_markdown

tableVars == <<table_data, markdown_table, renderer, data_rows>>
pdfVars   == <<last_table_block_indices, pc, page, tables, content_blocks,
               markdown_content, pages_done>>
docxVars  == <<paragraph, para_lines, doc, doc_pos, doc_markdown, filter_headers_footers>>
parseVars == <<env, ppc, result, temp_file, conversions>>
asmVars   == <<body, unit_pos, unit_state, markdown_lines, result_markdown>>
vars      == <<tableVars, pdfVars, docxVars, parseVars, asmVars>>

-----------------------------------------------------------------------------
(* Python str operations on character sequences.                           *)

Digits == {"0", "1", "2", "3", "4", "5", "6", "7", "8", "9"}
Whitespace == {" ", "\n", "\t"}
DigitSeq == <<"0", "1", "2", "3", "4", "5", "6", "7", "8", "9">>

RECURSIVE lstrip(_)
lstrip(s) == IF s # <<>> /\ Head(s) \in Whitespace THEN lstrip(Tail(s)) ELSE s

RECURSIVE rstrip(_)
rstrip(s) ==
    IF s # <<>> /\ s[Len(s)] \in Whitespace
    THEN rstrip(SubSeq(s, 1, Len(s) - 1)) ELSE s

strip(s) == rstrip(lstrip(s))

\* s.replace(c, r) for a one-character c
RECURSIVE replace(_, _, _)
replace(s, c, r) ==
    IF s = <<>> THEN <<>>
    ELSE (IF Head(s) = c THEN r ELSE <<Head(s)>>) \o replace(Tail(s), c, r)

isdigit(s) == s # <<>> /\ \A i \in 1..Len(s) : s[i] \in Digits

\* t in s
Contains(s, t) == \E i \in 0..(Len(s) - Len(t)) : SubSeq(s, i + 1, i + Len(t)) = t

startswith(s, t) == Len(s) >= Len(t) /\ SubSeq(s, 1, Len(t)) = t

\* sep.join(parts)
RECURSIVE join(_, _)
join(sep, parts) ==
    IF parts = <<>> THEN <<>>
    ELSE IF Len(parts) = 1 THEN parts[1]
    ELSE parts[1] \o sep \o join(sep, Tail(parts))

\* str(n) for a natural number n
RECURSIVE IntStr(_)
IntStr(n) == IF n < 10 THEN <<DigitSeq[n + 1]>> ELSE IntStr(n \div 10) \o <<DigitSeq[(n % 10) + 1]>>

RECURSIVE SeqMax(_)
SeqMax(s) ==
    IF Len(s) = 1 THEN s[1]
    ELSE LET m == SeqMax(Tail(s)) IN IF s[1] >= m THEN s[1] ELSE m

\* [x] * n
Repeat(x, n) == [i \in 1..n |-> x]

-----------------------------------------------------------------------------
(* Table renderers.                                                        *)

None == <<"<None>">>                \* Python None as a cell of table.extract()

ColumnLabel(i) == <<"<lie>">> \o IntStr(i)                       \* f"列{i+1}"
GridLine(cells) == <<"|", " ">> \o join(<<" ", "|", " ">>, cells) \o <<" ", "|">>
Dashes == <<"-", "-", "-">>
BR == <<"<", "b", "r", ">">>

\* _convert_pdf_table_to_markdown, loop body of lines 805-812
CleanPdfCell(cell) ==
    IF cell = None THEN <<>>
    ELSE replace(replace(strip(cell), "\n", <<" ">>), "|", <<"\\", "|">>)

\* lines 801-816: clean the cells, drop the rows that are entirely empty
PdfFilteredData(td) ==
    SelectSeq([r \in 1..Len(td) |-> [c \in 1..Len(td[r]) |-> CleanPdfCell(td[r][c])]],
              LAMBDA row : \E c \in 1..Len(row) : row[c] # <<>>)

\* lines 821-827: pad every row to the widest row
Normalize(rows) ==
    LET max_cols == SeqMax([r \in 1..Len(rows) |-> Len(rows[r])])
    IN  [r \in 1..Len(rows) |->
            rows[r] \o Repeat(<<>>, max_cols - Len(rows[r]))]

\* line 836: row 0 does not look like a header
PdfHeaderIsData(headers) ==
    \A c \in 1..Len(headers) :
        headers[c] = <<>> \/ (isdigit(headers[c]) /\ Len(headers[c]) <= 3)

\* lines 832-854 as a grid: <<header cells, separator cells, data row cells ...>>
PdfGrid(td) ==
    LET normalized_data == Normalize(PdfFilteredData(td))
        first   == normalized_data[1]
        synth   == PdfHeaderIsData(first)
        h0      == IF synth THEN [c \in 1..Len(first) |-> ColumnLabel(c)] ELSE first
        headers == [c \in 1..Len(h0) |-> IF h0[c] # <<>> THEN h0[c] ELSE ColumnLabel(c)]
        rows    == IF synth THEN normalized_data ELSE Tail(normalized_data)
    IN  <<headers, Repeat(Dashes, Len(headers))>> \o
        [r \in 1..Len(rows) |->
            [c \in 1..Len(rows[r]) |-> IF rows[r][c] # <<>> THEN rows[r][c] ELSE <<"-">>]]

PdfTitle(page_num, table_idx) ==
    <<"\n", "*", "*", "<biao>", "<ge>", " ">> \o IntStr(table_idx + 1) \o
    <<"*", "*", " ", "(", "<di>">> \o IntStr(page_num + 1) \o <<"<ye>", ")", ":", "\n">>

convert_pdf_table_to_markdown(td, page_num, table_idx) ==
    IF td = <<>> THEN <<>>
    ELSE IF PdfFilteredData(td) = <<>> THEN <<>>
    ELSE LET g == PdfGrid(td)
         IN  <<PdfTitle(page_num, table_idx)>> \o [i \in 1..Len(g) |-> GridLine(g[i])]

\* _convert_list_to_markdown_table (spreadsheets), lines 1400-1419, as a grid
ListGrid(td) ==
    LET padded == Normalize(td)
        normalized_data ==
            [r \in 1..Len(padded) |->
                [c \in 1..Len(padded[r]) |->
                    replace(replace(padded[r][c], "\n", BR), "|", <<"\\", "|">>)]]
        max_cols == Len(normalized_data[1])
        headers == IF Len(normalized_data) > 1 THEN normalized_data[1]
                   ELSE [c \in 1..max_cols |-> ColumnLabel(c)]
        rows == IF Len(normalized_data) > 1 THEN Tail(normalized_data) ELSE normalized_data
    IN  <<headers, Repeat(Dashes, Len(headers))>> \o rows

EmptyTableNote == <<"*", "<kong>", "<biao>", "<ge>", "*">>                 \* "*空表格*"
EmptyDocxTableNote == <<"*", "[", "<kong>", "<biao>", "<ge>", "]", "*">>   \* "*[空表格]*"

convert_list_to_markdown_table(td) ==
    IF td = <<>> THEN <<EmptyTableNote>>
    ELSE LET g == ListGrid(td) IN [i \in 1..Len(g) |-> GridLine(g[i])]

\* _convert_docx_table_to_markdown, lines 892-900: some cell has text
DocxHasContent(rows) ==
    \E r \in 1..Len(rows) : \E c \in 1..Len(rows[r]) : strip(rows[r][c]) # <<>>

\* lines 905-917 as a grid; rows[r] is the text of row.cells
DocxGrid(rows) ==
    LET headers == [c \in 1..Len(rows[1]) |->
                        IF strip(rows[1][c]) # <<>> THEN strip(rows[1][c]) ELSE ColumnLabel(c)]
        rest == Tail(rows)
    IN  <<headers, Repeat(Dashes, Len(headers))>> \o
        [r \in 1..Len(rest) |->
            [c \in 1..Len(rest[r]) |->
                LET cell_text == replace(strip(rest[r][c]), "\n", BR)
                IN  IF cell_text # <<>> THEN cell_text ELSE <<"-">>]]

convert_docx_table_to_markdown(rows) ==
    IF rows = <<>> THEN <<>>
    ELSE IF ~DocxHasContent(rows) THEN <<EmptyDocxTableNote>>
    ELSE LET g == DocxGrid(rows) IN [i \in 1..Len(g) |-> GridLine(g[i])]

\* _get_table_data_from_markdown, lines 1085-1089
CountedLine(line) ==
    /\ startswith(strip(line), <<"|">>)
    /\ ~Contains(line, Dashes)
    /\ ~Contains(line, <<"*", "*", "<biao>", "<ge>">>)

get_table_data_from_markdown(table_markdown) ==
    LET n == Len(SelectSeq(table_markdown, CountedLine))
    IN  IF n - 1 > 0 THEN n - 1 ELSE 0

-----------------------------------------------------------------------------
(* PDF pages as the reader hands them over (page.get_text("dict"),         *)
(* page.find_tables(), _extract_pdf_images).                               *)
(*   block : [type, bbox, lines]   type 0 = text, 1 = image                *)
(*   line  : [bbox, spans]         spans = the texts of the line's spans   *)
(*   page  : [blocks, native, images]                                      *)
(*   native table : [bbox, data]   images : the urls of the page's images  *)

Abs(n) == IF n < 0 THEN -n ELSE n
Min(S) == CHOOSE m \in S : \A k \in S : m <= k

\* comparison of two keys, tuples of numbers of one length, as Python compares tuples
LessKey(a, b) ==
    \E k \in 1..Len(a) : a[k] < b[k] /\ \A j \in 1..(k - 1) : a[j] = b[j]

\* s.sort(key=...) where keys[i] is the key of s[i]; stable like list.sort
StableSort(s, keys) ==
    LET rank(i) == Cardinality({j \in 1..Len(s) :
                        LessKey(keys[j], keys[i]) \/ (keys[j] = keys[i] /\ j < i)}) + 1
    IN  [k \in 1..Len(s) |-> s[CHOOSE i \in 1..Len(s) : rank(i) = k]]

\* " ".join(span.get("text", "").strip() for span in spans).strip()
LineText(line) ==
    strip(join(<<" ">>, [k \in 1..Len(line.spans) |-> strip(line.spans[k])]))

\* _detect_tables_from_text_optimized, lines 704-721: one entry per non-empty line
RECURSIVE BlockTextLines(_, _, _)
BlockTextLines(block, block_idx, k) ==
    IF k > Len(block.lines) THEN <<>>
    ELSE LET line == block.lines[k]
         IN  (IF line.spans # <<>> /\ LineText(line) # <<>>
              THEN <<[text |-> LineText(line), x0 |-> line.bbox[1], y0 |-> line.bbox[2],
                      x1 |-> line.bbox[3], y1 |-> line.bbox[4], block_idx |-> block_idx]>>
              ELSE <<>>)
             \o BlockTextLines(block, block_idx, k + 1)

RECURSIVE CollectTextBlocks(_, _)
CollectTextBlocks(blocks, i) ==
    IF i > Len(blocks) THEN <<>>
    ELSE (IF blocks[i].type = 0 THEN BlockTextLines(blocks[i], i - 1, 1) ELSE <<>>)
         \o CollectTextBlocks(blocks, i + 1)

y_tolerance == 5
MinLines == 3
MinRows == 2

KeyY0(s) == [i \in 1..Len(s) |-> <<s[i].y0>>]            \* key=lambda b: b["y0"]
KeyX0(s) == [i \in 1..Len(s) |-> <<s[i].x0>>]            \* key=lambda b: b["x0"]

\* lines 730-748: greedy grouping of the y-sorted lines into rows
RECURSIVE GroupRows(_, _, _)
GroupRows(rest, rows, current_row) ==
    IF rest = <<>>
    THEN IF current_row # <<>> THEN Append(rows, StableSort(current_row, KeyX0(current_row))) ELSE rows
    ELSE LET block == Head(rest)
             last_y == current_row[Len(current_row)].y0
         IN  IF current_row = <<>> \/ Abs(block.y0 - last_y) < y_tolerance
             THEN GroupRows(Tail(rest), rows, Append(current_row, block))
             ELSE GroupRows(Tail(rest), Append(rows, StableSort(current_row, KeyX0(current_row))),
                            <<block>>)

DetectRows(page_dict) ==
    LET text_blocks == CollectTextBlocks(page_dict.blocks, 1)
    IN  GroupRows(StableSort(text_blocks, KeyY0(text_blocks)), <<>>, <<>>)

Count(s, v) == Cardinality({i \in 1..Len(s) : s[i] = v})

\* line 759: max(set(col_counts), key=col_counts.count); which of several equally
\* frequent counts Python returns depends on the set's iteration order, so every
\* most frequent count is a possible result
Modes(col_counts) ==
    {m \in {col_counts[i] : i \in 1..Len(col_counts)} :
        \A i \in 1..Len(col_counts) : Count(col_counts, col_counts[i]) <= Count(col_counts, m)}

\* variant: a modal count shared by half of the rows is enough
ModeAcceptedHalf(rows, most_common_cols) ==
    LET col_counts == [r \in 1..Len(rows) |-> Len(rows[r])]
    IN  /\ 2 * Count(col_counts, most_common_cols) >= Len(rows)
        /\ most_common_cols > 1

\* line 762: col_counts.count(m) >= len(rows) * 0.6 and m > 1
ModeAccepted(rows, most_common_cols) ==
    LET col_counts == [r \in 1..Len(rows) |-> Len(rows[r])]
    IN  /\ 10 * Count(col_counts, most_common_cols) >= 6 * Len(rows)
        /\ most_common_cols > 1

\* variant: every clustered row is kept, whatever its cell count
KeptRowsAll(rows, most_common_cols) == rows

KeptRows(rows, most_common_cols) ==
    SelectSeq(rows, LAMBDA row : Len(row) = most_common_cols)

\* variant: no block index is recorded for the table
ConsumedIndicesNone(kept) == {}

\* lines 764-772: block_idx_set, the block index of every cell of a kept row
ConsumedIndices(kept) ==
    UNION {{kept[r][c].block_idx : c \in 1..Len(kept[r])} : r \in 1..Len(kept)}

NoTable == [found |-> FALSE, table_data |-> <<>>, indices |-> {}, markdown |-> <<>>]

\* _detect_tables_from_text_optimized for the mode the max() of line 759 returned:
\* the table's rows, the block indices it records and its markdown
detect_tables_from_text_optimized(page_dict, page_num, most_common_cols) ==
    LET text_blocks == CollectTextBlocks(page_dict.blocks, 1)
        rows == DetectRows(page_dict)
    IN  IF Len(text_blocks) < MinLines THEN NoTable
        ELSE IF Len(rows) < MinRows THEN NoTable
        ELSE IF ~ModeAccepted(rows, most_common_cols) THEN NoTable
        ELSE LET kept == KeptRows(rows, most_common_cols)
                 data == [r \in 1..Len(kept) |-> [c \in 1..Len(kept[r]) |-> kept[r][c].text]]
                 md   == convert_pdf_table_to_markdown(data, page_num, 0)
             IN  IF data = <<>> \/ md = <<>> THEN NoTable
                 ELSE [found |-> TRUE, table_data |-> data,
                       indices |-> ConsumedIndices(kept),
                       markdown |-> md]

-----------------------------------------------------------------------------
(* _extract_pdf_tables_optimized and the ContentOrderer.                   *)

\* lines 648-665: the native tables that render to something
RECURSIVE StandardTables(_, _, _, _)
StandardTables(native, k, page_num, table_count) ==
    IF k > Len(native) THEN <<>>
    ELSE LET md == convert_pdf_table_to_markdown(native[k].data, page_num, table_count)
         IN  IF native[k].data # <<>> /\ md # <<>>
             THEN <<[content |-> md, bbox |-> native[k].bbox,
                     y_pos |-> native[k].bbox[2], type |-> "standard"]>>
                  \o StandardTables(native, k + 1, page_num, table_count + 1)
             ELSE StandardTables(native, k + 1, page_num, table_count)

\* variant: the detected table is listed twice
DetectedTablesTwice(det) ==
    IF det.found
    THEN LET t == [content |-> det.markdown, bbox |-> <<>>, y_pos |-> 0, type |-> "detected"]
         IN  <<t, t>>
    ELSE <<>>

\* lines 674-682: the detected table wrapped as a table of the page
DetectedTables(det) ==
    IF det.found
    THEN <<[content |-> det.markdown, bbox |-> <<>>, y_pos |-> 0, type |-> "detected"]>>
    ELSE <<>>

\* variant: the block must lie within the table's bbox itself, no slack
InTableNoSlack(bbox, standard_tables) ==
    \E t \in 1..Len(standard_tables) :
        LET t_bbox == standard_tables[t].bbox
        IN  /\ bbox[1] >= t_bbox[1] /\ bbox[3] <= t_bbox[3]
            /\ bbox[2] >= t_bbox[2] /\ bbox[4] <= t_bbox[4]

\* lines 993-998: the block lies within a native table's bbox, 5 units of slack
InTable(bbox, standard_tables) ==
    \E t \in 1..Len(standard_tables) :
        LET t_bbox == standard_tables[t].bbox
        IN  /\ bbox[1] >= t_bbox[1] - 5 /\ bbox[3] <= t_bbox[3] + 5
            /\ bbox[2] >= t_bbox[2] - 5 /\ bbox[4] <= t_bbox[4] + 5

\* lines 1015-1021: the non-empty line texts of a block
RECURSIVE TextParts(_, _)
TextParts(block, k) ==
    IF k > Len(block.lines) THEN <<>>
    ELSE (IF block.lines[k].spans # <<>> /\ LineText(block.lines[k]) # <<>>
          THEN <<LineText(block.lines[k])>> ELSE <<>>)
         \o TextParts(block, k + 1)

ImageMarkdown(url) ==                                            \* f"![图片]({url})"
    <<"!", "[", "<tu>", "<pian>", "]", "(">> \o url \o <<")">>

\* variant: the detected table is emitted at every consumed block, not only the first
TextBlockOutputEveryIndex(block, block_idx, standard_tables, detected_tables, indices) ==
    LET y_pos == block.bbox[2]
    IN  IF InTable(block.bbox, standard_tables) THEN <<>>
        ELSE IF block_idx \in indices
        THEN IF detected_tables # <<>>
             THEN <<[type |-> "table", content |-> detected_tables[1].content,
                     y_pos |-> y_pos, sort_key |-> <<y_pos, block_idx>>]>>
             ELSE <<>>
        ELSE IF TextParts(block, 1) # <<>>
             THEN <<[type |-> "text", content |-> join(<<" ">>, TextParts(block, 1)),
                     y_pos |-> y_pos, sort_key |-> <<y_pos, block_idx>>]>>
             ELSE <<>>

\* variant: the detected table is emitted at the last consumed block
TextBlockOutputLastIndex(block, block_idx, standard_tables, detected_tables, indices) ==
    LET y_pos == block.bbox[2]
    IN  IF InTable(block.bbox, standard_tables) THEN <<>>
        ELSE IF block_idx \in indices
        THEN IF block_idx = -Min({-i : i \in indices}) /\ detected_tables # <<>>
             THEN <<[type |-> "table", content |-> detected_tables[1].content,
                     y_pos |-> y_pos, sort_key |-> <<y_pos, block_idx>>]>>
             ELSE <<>>
        ELSE IF TextParts(block, 1) # <<>>
             THEN <<[type |-> "text", content |-> join(<<" ">>, TextParts(block, 1)),
                     y_pos |-> y_pos, sort_key |-> <<y_pos, block_idx>>]>>
             ELSE <<>>

\* lines 986-1029: what a text block contributes
TextBlockOutput(block, block_idx, standard_tables, detected_tables, indices) ==
    LET y_pos == block.bbox[2]
    IN  IF InTable(block.bbox, standard_tables) THEN <<>>
        ELSE IF block_idx \in indices
        THEN IF block_idx = Min(indices) /\ detected_tables # <<>>
             THEN <<[type |-> "table", content |-> detected_tables[1].content,
                     y_pos |-> y_pos, sort_key |-> <<y_pos, block_idx>>]>>
             ELSE <<>>
        ELSE IF TextParts(block, 1) # <<>>
             THEN <<[type |-> "text", content |-> join(<<" ">>, TextParts(block, 1)),
                     y_pos |-> y_pos, sort_key |-> <<y_pos, block_idx>>]>>
             ELSE <<>>

\* lines 983-1042: the loop over the blocks, image_idx counting the images used
RECURSIVE WalkBlocks(_, _, _, _, _, _, _)
WalkBlocks(blocks, i, image_idx, images, standard_tables, detected_tables, indices) ==
    IF i > Len(blocks) THEN <<>>
    ELSE LET block == blocks[i]
             block_idx == i - 1
         IN  IF block.type = 0
             THEN TextBlockOutput(block, block_idx, standard_tables, detected_tables, indices)
                  \o WalkBlocks(blocks, i + 1, image_idx, images, standard_tables,
                                detected_tables, indices)
             ELSE IF block.type = 1 /\ image_idx < Len(images)
             THEN <<[type |-> "image", content |-> ImageMarkdown(images[image_idx + 1]),
                     y_pos |-> block.bbox[2], sort_key |-> <<block.bbox[2], block_idx>>]>>
                  \o WalkBlocks(blocks, i + 1, image_idx + 1, images, standard_tables,
                                detected_tables, indices)
             ELSE WalkBlocks(blocks, i + 1, image_idx, images, standard_tables,
                             detected_tables, indices)

\* key=lambda x: x['sort_key']
KeySortKey(blocks) == [i \in 1..Len(blocks) |-> blocks[i].sort_key]

\* variant: the blocks are left in the order they were collected in
SortBlocksUnsorted(blocks) == blocks

\* line 1045: content_blocks.sort(key=lambda x: x['sort_key'])
SortBlocks(blocks) == StableSort(blocks, KeySortKey(blocks))

\* _get_ordered_content_blocks_optimized; indices is self._last_table_block_indices
get_ordered_content_blocks_optimized(page_dict, tbls, images, indices) ==
    LET standard_tables == SelectSeq(tbls, LAMBDA t : t.type = "standard" /\ t.bbox # <<>>)
        detected_tables == SelectSeq(tbls, LAMBDA t : t.type = "detected")
        standard_blocks ==
            [t \in 1..Len(standard_tables) |->
                [type |-> "table", content |-> standard_tables[t].content,
                 y_pos |-> standard_tables[t].y_pos,
                 sort_key |-> <<standard_tables[t].y_pos, -1>>]]
    IN  SortBlocks(standard_blocks \o
                   WalkBlocks(page_dict.blocks, 1, 0, images, standard_tables,
                              detected_tables, indices))

\* _parse_pdf lines 409-418: the lines a page's ordered blocks append
RECURSIVE BlocksMarkdown(_)
BlocksMarkdown(blocks) ==
    IF blocks = <<>> THEN <<>>
    ELSE (IF Head(blocks).type = "table" THEN Head(blocks).content \o <<<<>>>>
          ELSE <<Head(blocks).content, <<>>>>)
         \o BlocksMarkdown(Tail(blocks))

-----------------------------------------------------------------------------
(* Regular expressions of the source, matched by hand on character         *)
(* sequences.  Each is a concatenation of character classes with           *)
(* quantifiers; where the classes of neighbouring items are disjoint the   *)
(* greedy match is the only one.                                           *)

UpperChars == {"A", "B", "C", "D", "E", "F", "G", "H", "I", "J", "K", "L", "M",
               "N", "O", "P", "Q", "R", "S", "T", "U", "V", "W", "X", "Y", "Z"}
LowerChars == {"a", "b", "c", "d", "e", "f", "g", "h", "i", "j", "k", "l", "m",
               "n", "o", "p", "q", "r", "s", "t", "u", "v", "w", "x", "y", "z"}
CjkChars == {"<lie>", "<biao>", "<ge>", "<di>", "<ye>", "<tu>", "<pian>", "<kong>",
             "<ju>", "<ban>", "<quan>", "<suo>", "<you>", "<bao>", "<liu>", "<li>",
             "<ji>", "<mi>", "<nei>", "<bu>", "<zi>", "<liao>"}
WordChars == UpperChars \cup LowerChars \cup CjkChars \cup Digits \cup {"_"}   \* \w
BulletChars == {"<bullet>", "-", "*"}                                        \* [•\-*]

\* position after the longest run of characters of class C starting at i
RECURSIVE RunEnd(_, _, _)
RunEnd(s, i, C) == IF i <= Len(s) /\ s[i] \in C THEN RunEnd(s, i + 1, C) ELSE i

\* re.match(r'^\s*[\d\w]+[.)]\s+', s)
MatchesListMarker(s) ==
    LET a == RunEnd(s, 1, Whitespace)
        b == RunEnd(s, a, WordChars)
    IN  b > a /\ b + 1 <= Len(s) /\ s[b] \in {".", ")"} /\ s[b + 1] \in Whitespace

\* re.match(r'^\s*\d+[.)]\s+', s)
MatchesOrderedMarker(s) ==
    LET a == RunEnd(s, 1, Whitespace)
        b == RunEnd(s, a, Digits)
    IN  b > a /\ b + 1 <= Len(s) /\ s[b] \in {".", ")"} /\ s[b + 1] \in Whitespace

\* re.match(r'^\s*\d+[.)]\s+(.+)', s): <<group(1)>> or <<>> when there is no match.
\* \s+ is greedy and gives characters back only when nothing is left for (.+);
\* (.+) stops at the first newline.
OrderedGroup(s) ==
    IF ~MatchesOrderedMarker(s) THEN <<>>
    ELSE LET a == RunEnd(s, 1, Whitespace)
             b == RunEnd(s, a, Digits)
             w == RunEnd(s, b + 1, Whitespace)       \* after the greedy \s+
             NotNl == {q \in (b + 2)..Len(s) : q <= w /\ s[q] # "\n"}
             start == IF w <= Len(s) THEN w
                      ELSE IF NotNl # {} THEN CHOOSE q \in NotNl : \A r \in NotNl : r <= q
                      ELSE 0
             CharsTo(q) == \A r \in start..q : s[r] # "\n"
             stop == CHOOSE q \in start..Len(s) :
                         CharsTo(q) /\ (q = Len(s) \/ s[q + 1] = "\n")
         IN  IF start = 0 THEN <<>> ELSE <<SubSeq(s, start, stop)>>

\* re.sub(r'^\s*[•\-*]\s+', '', s)
StripBullet(s) ==
    LET a == RunEnd(s, 1, Whitespace)
        w == RunEnd(s, a + 1, Whitespace)
    IN  IF a <= Len(s) /\ s[a] \in BulletChars /\ w > a + 1
        THEN SubSeq(s, w, Len(s)) ELSE s

\* s.startswith(('•', '-', '*'))
StartsWithBullet(s) == s # <<>> /\ s[1] \in BulletChars

\* re.sub(C+, ' ', s) for a character class C
RECURSIVE CollapseRuns(_, _)
CollapseRuns(s, C) ==
    IF s = <<>> THEN <<>>
    ELSE IF s[1] \in C
    THEN <<" ">> \o CollapseRuns(SubSeq(s, RunEnd(s, 1, C), Len(s)), C)
    ELSE <<s[1]>> \o CollapseRuns(Tail(s), C)

\* s.split('\n\n')
RECURSIVE SplitParagraphs(_, _)
SplitParagraphs(s, cur) ==
    IF s = <<>> THEN <<cur>>
    ELSE IF Len(s) >= 2 /\ s[1] = "\n" /\ s[2] = "\n"
    THEN <<cur>> \o SplitParagraphs(SubSeq(s, 3, Len(s)), <<>>)
    ELSE SplitParagraphs(Tail(s), Append(cur, s[1]))

isupper(s) ==
    /\ \E i \in 1..Len(s) : s[i] \in UpperChars
    /\ \A i \in 1..Len(s) : s[i] \notin LowerChars

\* re.match(r'^[A-Z][^.!?]*$', s)
MatchesCapitalLine(s) ==
    /\ s # <<>> /\ s[1] \in UpperChars
    /\ \A i \in 2..Len(s) : s[i] \notin {".", "!", "?"}

\* re.match(r'^\d+[\.\s]+[A-Z]', s)
MatchesNumberedTitle(s) ==
    LET a == RunEnd(s, 1, Digits)
        b == RunEnd(s, a, Whitespace \cup {"."})
    IN  a > 1 /\ b > a /\ b <= Len(s) /\ s[b] \in UpperChars

\* _process_pdf_text, lines 469-498: the lines of one paragraph
PdfParagraphLines(raw) ==
    LET para == CollapseRuns(CollapseRuns(strip(raw), {"\n"}), Whitespace)
    IN  IF strip(raw) = <<>> THEN <<>>
        ELSE IF Len(para) < 100 /\ (isupper(para) \/ MatchesCapitalLine(para)
                                     \/ MatchesNumberedTitle(para))
        THEN <<<<"#", "#", " ">> \o para, <<>>>>
        ELSE (IF MatchesListMarker(para) \/ StartsWithBullet(para)
              THEN IF MatchesOrderedMarker(para)
                   THEN IF OrderedGroup(para) # <<>>
                        THEN <<<<"1", ".", " ">> \o OrderedGroup(para)[1]>> ELSE <<>>
                   ELSE <<<<"-", " ">> \o StripBullet(para)>>
              ELSE <<para>>)
             \o <<<<>>>>

RECURSIVE FlattenLines(_)
FlattenLines(ls) == IF ls = <<>> THEN <<>> ELSE Head(ls) \o FlattenLines(Tail(ls))

process_pdf_text(text) ==
    LET paragraphs == SplitParagraphs(text, <<>>)
    IN  FlattenLines([k \in 1..Len(paragraphs) |-> PdfParagraphLines(paragraphs[k])])

-----------------------------------------------------------------------------
(* _clean_markdown.                                                        *)

\* line 942: re.sub(r'\n{3,}', '\n\n', s), one run of newlines at a time
RECURSIVE CollapseNewlines(_)
CollapseNewlines(s) ==
    LET newlines == {i \in 1..Len(s) : s[i] = "\n"}
    IN  IF newlines = {} THEN s
        ELSE LET a == Min(newlines)
                 e == RunEnd(s, a, {"\n"})
             IN  SubSeq(s, 1, a - 1)
                 \o (IF e - a >= 3 THEN <<"\n", "\n">> ELSE SubSeq(s, a, e - 1))
                 \o CollapseNewlines(SubSeq(s, e, Len(s)))

\* (cur + s).split('\n'), one line at a time
RECURSIVE SplitLines(_, _)
SplitLines(s, cur) ==
    LET newlines == {i \in 1..Len(s) : s[i] = "\n"}
    IN  IF newlines = {} THEN <<cur \o s>>
        ELSE LET a == Min(newlines)
             IN  <<cur \o SubSeq(s, 1, a - 1)>> \o SplitLines(SubSeq(s, a + 1, Len(s)), <<>>)

\* lines 948-949: while lines and not lines[0].strip(): lines.pop(0)
RECURSIVE DropLeadingBlank(_)
DropLeadingBlank(lines) ==
    IF lines # <<>> /\ strip(Head(lines)) = <<>> THEN DropLeadingBlank(Tail(lines)) ELSE lines

\* lines 950-951: while lines and not lines[-1].strip(): lines.pop()
RECURSIVE DropTrailingBlank(_)
DropTrailingBlank(lines) ==
    IF lines # <<>> /\ strip(lines[Len(lines)]) = <<>>
    THEN DropTrailingBlank(SubSeq(lines, 1, Len(lines) - 1)) ELSE lines

\* _clean_markdown: the list of lines to one str
clean_markdown(lines) ==
    LET content == CollapseNewlines(join(<<"\n">>, lines))
        split == SplitLines(content, <<>>)
        stripped == [k \in 1..Len(split) |-> rstrip(split[k])]
    IN  join(<<"\n">>, DropTrailingBlank(DropLeadingBlank(stripped)))

-----------------------------------------------------------------------------
(* The pages the model feeds to _parse_pdf.                                *)

MaxLines == 5          \* text lines on a page
MaxBlocks == 3         \* blocks on a page
MaxBlockLines == 2     \* lines in a text block
MaxImages == 2         \* images _extract_pdf_images accepted for a page
MaxPages == 2          \* pages of a document
SmallPage == 2         \* pages of at most this many lines also carry native tables

LinePos == {<<0, 0>>, <<50, 0>>, <<50, 4>>, <<0, 10>>, <<50, 10>>, <<0, 20>>, <<50, 20>>}
ImageYs == {0, 20}
Letters == <<"A", "B", "C", "D", "E", "F", "G", "H", "I", "J", "K", "L">>

LineBox(pos) == <<pos[1], pos[2], pos[1] + 40, pos[2] + 3>>
ImageBox(y) == <<0, y, 90, y + 8>>

RECURSIVE SumSeq(_)
SumSeq(s) == IF s = <<>> THEN 0 ELSE Head(s) + SumSeq(Tail(s))

\* a page layout: per block 0 for an image block, k > 0 for a text block of k lines
Shapes ==
    {sh \in UNION {[1..n -> 0..MaxBlockLines] : n \in 0..MaxBlocks} : SumSeq(sh) <= MaxLines}

ImageCount(sh) == Cardinality({b \in 1..Len(sh) : sh[b] = 0})

Injective(n, S) == {f \in [1..n -> S] : \A i, j \in 1..n : i < j => f[i] # f[j]}

\* the bbox of a block is the union of the bboxes of its lines
UnionBox(lines) ==
    LET I == 1..Len(lines)
    IN  <<Min({lines[k].bbox[1] : k \in I}), Min({lines[k].bbox[2] : k \in I}),
          -Min({-lines[k].bbox[3] : k \in I}), -Min({-lines[k].bbox[4] : k \in I})>>

\* the blocks of a layout: line k of the page carries the text Letters[k] at pos[k],
\* image block number k sits at ys[k]
MakeBlocks(sh, pos, ys) ==
    [b \in 1..Len(sh) |->
        IF sh[b] = 0
        THEN [type |-> 1, bbox |-> ImageBox(ys[ImageCount(SubSeq(sh, 1, b))]), lines |-> <<>>]
        ELSE LET off == SumSeq(SubSeq(sh, 1, b - 1))
                 lines == [k \in 1..sh[b] |->
                              [bbox |-> LineBox(pos[off + k]), spans |-> <<<<Letters[off + k]>>>>]]
             IN  [type |-> 0, bbox |-> UnionBox(lines), lines |-> lines]]

TableTop == [bbox |-> <<0, 0, 90, 7>>, data |-> <<<<<<"h">>, <<"7">>>>, <<<<"x">>, None>>>>]
TableLow == [bbox |-> <<0, 19, 90, 22>>, data |-> <<<<<<"k">>>>>>]
TableBlank == [bbox |-> <<0, 10, 90, 13>>, data |-> <<<<None, <<" ">>>>>>]

NativeChoices(sh) ==
    IF SumSeq(sh) <= SmallPage
    THEN {<<>>, <<TableTop>>, <<TableBlank>>, <<TableTop, TableLow>>, <<TableBlank, TableTop>>}
    ELSE IF sh = <<2, 2>> THEN {<<>>, <<TableBlank>>, <<TableLow>>}
    ELSE {<<>>}

ImageChoices(sh) ==
    IF SumSeq(sh) <= SmallPage THEN 0..MaxImages ELSE {ImageCount(sh)}

ImageUrl(k) == <<"u">> \o IntStr(k)

MakePage(sh, pos, ys, nat, n) ==
    [blocks |-> MakeBlocks(sh, pos, ys), native |-> nat,
     images |-> [k \in 1..n |-> ImageUrl(k)]]

EmptyPage == [blocks |-> <<>>, native |-> <<>>, images |-> <<>>]

\* page.get_text(): the lines of the text blocks in block order, each ended by a
\* newline; whether the reader leaves an empty line between two blocks is its choice
RECURSIVE BlockPlainText(_, _)
BlockPlainText(block, k) ==
    IF k > Len(block.lines) THEN <<>>
    ELSE FlattenLines(block.lines[k].spans) \o <<"\n">> \o BlockPlainText(block, k + 1)

\* variant: the blocks' text comes out last block first
RECURSIVE GetTextReversed(_, _, _)
GetTextReversed(blocks, i, gap) ==
    IF i > Len(blocks) THEN <<>>
    ELSE GetTextReversed(blocks, i + 1, gap)
         \o (IF blocks[i].type = 0
             THEN BlockPlainText(blocks[i], 1) \o (IF gap THEN <<"\n">> ELSE <<>>)
             ELSE <<>>)

RECURSIVE GetText(_, _, _)
GetText(blocks, i, gap) ==
    IF i > Len(blocks) THEN <<>>
    ELSE (IF blocks[i].type = 0
          THEN BlockPlainText(blocks[i], 1) \o (IF gap THEN <<"\n">> ELSE <<>>)
          ELSE <<>>)
         \o GetText(blocks, i + 1, gap)

-----------------------------------------------------------------------------
(* _parse_pdf, one page at a time.  Two calls may share the parser         *)
(* instance; SpecPdf runs call 1 alone.                                     *)

CallIds == {1, 2}

\* variant: the scratch field is left as the previous page set it
ResetIndicesKeeps(indices) == indices

\* line 395: self._last_table_block_indices = []
ResetIndices(indices) == {}

\* lines 387-395: the next page is loaded and the scratch field reset
StartPage(c) ==
    /\ pc[c] = "idle"
    /\ pages_done[c] < MaxPages
    /\ \E sh \in Shapes :
          \E pos \in Injective(SumSeq(sh), LinePos), ys \in [1..ImageCount(sh) -> ImageYs] :
             \E nat \in NativeChoices(sh), n \in ImageChoices(sh) :
                page' = [page EXCEPT ![c] = MakePage(sh, pos, ys, nat, n)]
    /\ last_table_block_indices' = ResetIndices(last_table_block_indices)
    /\ pc' = [pc EXCEPT ![c] = "tables"]
    /\ UNCHANGED <<tables, content_blocks, markdown_content, pages_done,
                   tableVars, docxVars, parseVars, asmVars>>

\* the pages of the documents two concurrent calls parse: a page the detector
\* accepts with blocks 0 and 1, one it accepts with blocks 1 and 2, a page with a
\* native table above two text blocks, and a page of one text line
SharedPages ==
    {MakePage(<<2, 2>>, <<<<0, 0>>, <<50, 0>>, <<0, 10>>, <<50, 10>>>>, <<>>, <<>>, 0),
     MakePage(<<1, 2, 2>>, <<<<0, 20>>, <<0, 0>>, <<50, 0>>, <<0, 10>>, <<50, 10>>>>,
              <<>>, <<>>, 0),
     MakePage(<<1, 1>>, <<<<0, 10>>, <<0, 20>>>>, <<>>, <<TableTop>>, 0),
     MakePage(<<1>>, <<<<0, 0>>>>, <<>>, <<>>, 0)}

\* lines 387-395 in a call that shares the parser instance with another call
StartSharedPage(c) ==
    /\ pc[c] = "idle"
    /\ pages_done[c] < MaxPages
    /\ \E p \in SharedPages : page' = [page EXCEPT ![c] = p]
    /\ last_table_block_indices' = ResetIndices(last_table_block_indices)
    /\ pc' = [pc EXCEPT ![c] = "tables"]
    /\ UNCHANGED <<tables, content_blocks, markdown_content, pages_done,
                   tableVars, docxVars, parseVars, asmVars>>

\* lines 389-392 raise: the page is skipped (lines 431-433), nothing is reset
FailPage(c) ==
    /\ pc[c] = "idle"
    /\ pages_done[c] < MaxPages
    /\ pages_done' = [pages_done EXCEPT ![c] = @ + 1]
    /\ UNCHANGED <<last_table_block_indices, pc, page, tables, content_blocks,
                   markdown_content,
                   tableVars, docxVars, parseVars, asmVars>>

\* line 396, _extract_pdf_tables_optimized: native tables were accepted
ExtractStandard(c) ==
    /\ pc[c] = "tables"
    /\ LET standard == StandardTables(page[c].native, 1, pages_done[c], 0)
       IN  /\ standard # <<>>
           /\ tables' = [tables EXCEPT ![c] = standard]
    /\ pc' = [pc EXCEPT ![c] = "order"]
    /\ UNCHANGED <<last_table_block_indices, page, content_blocks, markdown_content,
                   pages_done,
                   tableVars, docxVars, parseVars, asmVars>>

\* line 396, _extract_pdf_tables_optimized: no native table, text detection runs
ExtractDetected(c) ==
    /\ pc[c] = "tables"
    /\ StandardTables(page[c].native, 1, pages_done[c], 0) = <<>>
    /\ LET rows == DetectRows(page[c])
           col_counts == [r \in 1..Len(rows) |-> Len(rows[r])]
       IN  \E m \in (IF rows = <<>> THEN {0} ELSE Modes(col_counts)) :
              LET det == detect_tables_from_text_optimized(page[c], pages_done[c], m)
              IN  /\ tables' = [tables EXCEPT ![c] = DetectedTables(det)]
                  /\ last_table_block_indices' =
                        IF det.found THEN det.indices ELSE last_table_block_indices
    /\ pc' = [pc EXCEPT ![c] = "order"]
    /\ UNCHANGED <<page, content_blocks, markdown_content, pages_done,
                   tableVars, docxVars, parseVars, asmVars>>

\* lines 404-418: the page has tables and goes through the ContentOrderer
OrderContent(c) ==
    /\ pc[c] = "order"
    /\ tables[c] # <<>>
    /\ LET blocks == get_ordered_content_blocks_optimized(
                         page[c], tables[c], page[c].images, last_table_block_indices)
       IN  /\ content_blocks' = [content_blocks EXCEPT ![c] = blocks]
           /\ markdown_content' = [markdown_content EXCEPT ![c] = BlocksMarkdown(blocks)]
    /\ pc' = [pc EXCEPT ![c] = "emitted"]
    /\ pages_done' = [pages_done EXCEPT ![c] = @ + 1]
    /\ UNCHANGED <<last_table_block_indices, page, tables,
                   tableVars, docxVars, parseVars, asmVars>>

\* lines 419-429: a page without tables: its plain text, then its images
PlainContent(c) ==
    /\ pc[c] = "order"
    /\ tables[c] = <<>>
    /\ \E gap \in BOOLEAN :
          LET text == GetText(page[c].blocks, 1, gap)
              imgs == page[c].images
          IN  markdown_content' = [markdown_content EXCEPT ![c] =
                  (IF strip(text) # <<>> THEN process_pdf_text(text) ELSE <<>>)
                  \o FlattenLines([k \in 1..Len(imgs) |->
                         <<<<"!", "[", "I", "m", "a", "g", "e", "]", "(">> \o imgs[k]
                             \o <<")">>, <<>>>>])]
    /\ pc' = [pc EXCEPT ![c] = "emitted"]
    /\ pages_done' = [pages_done EXCEPT ![c] = @ + 1]
    /\ UNCHANGED <<last_table_block_indices, page, tables, content_blocks,
                   tableVars, docxVars, parseVars, asmVars>>

\* line 387: the loop moves on; the page's locals are gone
NextIteration(c) ==
    /\ pc[c] = "emitted"
    /\ pc' = [pc EXCEPT ![c] = "idle"]
    /\ page' = [page EXCEPT ![c] = EmptyPage]
    /\ tables' = [tables EXCEPT ![c] = <<>>]
    /\ content_blocks' = [content_blocks EXCEPT ![c] = <<>>]
    /\ markdown_content' = [markdown_content EXCEPT ![c] = <<>>]
    /\ UNCHANGED <<last_table_block_indices, pages_done,
                   tableVars, docxVars, parseVars, asmVars>>

-----------------------------------------------------------------------------
(* The renderers on their own.                                             *)

MaxTableRows == 2      \* rows of a cell matrix
MaxCols == 2           \* cells in a row

Cells == {<<>>, <<"a">>, <<"7">>, <<"1", "2", "3", "4">>, <<"x", "|", "\n", "y">>,
          Dashes, None}

TableRows == UNION {[1..w -> Cells] : w \in 1..MaxCols}
Matrices == UNION {[1..n -> TableRows] : n \in 0..MaxTableRows}

HasNone(td) == \E r \in 1..Len(td) : \E c \in 1..Len(td[r]) : td[r][c] = None

\* a native or detected PDF table is rendered
RenderPdf ==
    /\ renderer = "none"
    /\ markdown_table' = convert_pdf_table_to_markdown(table_data, 0, 0)
    /\ renderer' = "pdf"
    /\ UNCHANGED <<table_data, data_rows, pdfVars, docxVars, parseVars, asmVars>>

\* a worksheet is rendered (its cells are strings)
RenderList ==
    /\ renderer = "none"
    /\ ~HasNone(table_data)
    /\ markdown_table' = convert_list_to_markdown_table(table_data)
    /\ renderer' = "list"
    /\ UNCHANGED <<table_data, data_rows, pdfVars, docxVars, parseVars, asmVars>>

\* a DOCX table is rendered (table_data[r] is the text of rows[r].cells)
RenderDocx ==
    /\ renderer = "none"
    /\ ~HasNone(table_data)
    /\ markdown_table' = convert_docx_table_to_markdown(table_data)
    /\ renderer' = "docx"
    /\ UNCHANGED <<table_data, data_rows, pdfVars, docxVars, parseVars, asmVars>>

\* the rendered table's data rows are counted
CountDataRows ==
    /\ renderer # "none"
    /\ data_rows = -1
    /\ data_rows' = get_table_data_from_markdown(markdown_table)
    /\ UNCHANGED <<table_data, markdown_table, renderer, pdfVars, docxVars, parseVars, asmVars>>

-----------------------------------------------------------------------------
(* DOCX paragraphs: _process_docx_paragraph and _is_header_or_footer.      *)

UpperSeq == <<"A", "B", "C", "D", "E", "F", "G", "H", "I", "J", "K", "L", "M",
              "N", "O", "P", "Q", "R", "S", "T", "U", "V", "W", "X", "Y", "Z">>
LowerSeq == <<"a", "b", "c", "d", "e", "f", "g", "h", "i", "j", "k", "l", "m",
              "n", "o", "p", "q", "r", "s", "t", "u", "v", "w", "x", "y", "z">>

\* str.lower()
lower(s) ==
    [i \in 1..Len(s) |->
        IF s[i] \in UpperChars
        THEN LowerSeq[CHOOSE k \in 1..26 : UpperSeq[k] = s[i]] ELSE s[i]]

HeadingPrefix == <<"H", "e", "a", "d", "i", "n", "g">>
HeadingStyle(n) == HeadingPrefix \o <<" ">> \o IntStr(n)
TitleStyle == <<"T", "i", "t", "l", "e">>
SubtitleStyle == <<"S", "u", "b", "t", "i", "t", "l", "e">>
NormalStyle == <<"N", "o", "r", "m", "a", "l">>

\* _get_heading_level: the dictionary lookup, 1 for a name that is not a key
get_heading_level(style_name) ==
    IF \E n \in 1..6 : style_name = HeadingStyle(n)
    THEN CHOOSE n \in 1..6 : style_name = HeadingStyle(n)
    ELSE IF style_name = SubtitleStyle THEN 2
    ELSE 1

\* lines 357-369: the list branch of a paragraph that is neither heading nor centred
ListLines(text) ==
    IF MatchesListMarker(text) \/ StartsWithBullet(strip(text))
    THEN IF MatchesOrderedMarker(text)
         THEN IF OrderedGroup(text) # <<>>
              THEN <<<<"1", ".", " ">> \o OrderedGroup(text)[1]>>
              ELSE <<>>
         ELSE <<<<"-", " ">> \o StripBullet(text)>>
    ELSE <<text>>

\* _process_docx_paragraph; p.style_name is "" for a paragraph without style
process_docx_paragraph(p) ==
    LET text == strip(p.text)
    IN  IF text = <<>> THEN <<<<>>>>
        ELSE IF startswith(p.style_name, HeadingPrefix)
        THEN <<Repeat("#", get_heading_level(p.style_name)) \o <<" ">> \o text, <<>>>>
        ELSE IF lower(p.style_name) \in {lower(TitleStyle), lower(SubtitleStyle)}
        THEN <<<<"#", " ">> \o text, <<>>>>
        ELSE IF p.alignment = "CENTER"
        THEN (IF Len(text) < 50 /\ ~Contains(text, <<"<ju>">>) /\ ~Contains(text, <<".">>)
              THEN <<<<"#", "#", " ">> \o text>>
              ELSE <<<<"*", "*">> \o text \o <<"*", "*">>>>) \o <<<<>>>>
        ELSE ListLines(text) \o <<<<>>>>

\* one element of a page-number pattern: a literal character (matched ignoring
\* case), or a run of a character class that is empty ("*") or not ("+")
Lit(ch) == [kind |-> "lit", ch |-> ch]
Ws0 == [kind |-> "*", class |-> Whitespace]
Ws1 == [kind |-> "+", class |-> Whitespace]
Num == [kind |-> "+", class |-> Digits]

\* re.match('^' + pat + '$', s, re.IGNORECASE) for a pattern of such elements, no
\* run followed by an element it could also match (so greedy matching is exact)
RECURSIVE PatternMatches(_, _, _, _)
PatternMatches(s, i, pat, k) ==
    IF k > Len(pat) THEN i = Len(s) + 1
    ELSE IF pat[k].kind = "lit"
    THEN i <= Len(s) /\ lower(<<s[i]>>) = <<pat[k].ch>> /\ PatternMatches(s, i + 1, pat, k + 1)
    ELSE LET j == RunEnd(s, i, pat[k].class)
         IN  (pat[k].kind = "*" \/ j > i) /\ PatternMatches(s, j, pat, k + 1)

\* lines 297-303
page_patterns ==
    << <<Lit("<di>"), Ws0, Num, Ws0, Lit("<ye>")>>,
       <<Lit("-"), Ws0, Num, Ws0, Lit("-")>>,
       <<Num, Ws0, Lit("/"), Ws0, Num>>,
       <<Lit("p"), Lit("a"), Lit("g"), Lit("e"), Ws1, Num>>,
       <<Num, Ws1, Lit("o"), Lit("f"), Ws1, Num>> >>

\* lines 317-318
footer_keywords ==
    { <<"<ban>", "<quan>", "<suo>", "<you>">>,
      <<"<bao>", "<liu>", "<suo>", "<you>", "<quan>", "<li>">>,
      <<"a", "l", "l", " ", "r", "i", "g", "h", "t", "s", " ",
        "r", "e", "s", "e", "r", "v", "e", "d">>,
      <<"c", "o", "p", "y", "r", "i", "g", "h", "t">>,
      <<"<ji>", "<mi>">>,
      <<"c", "o", "n", "f", "i", "d", "e", "n", "t", "i", "a", "l">>,
      <<"<nei>", "<bu>", "<zi>", "<liao>">> }

\* lines 293-294: a bare page number
IsPageNumber(text) == isdigit(text) /\ Len(text) <= 4

\* lines 304-306
MatchesPagePattern(text) ==
    \E k \in 1..Len(page_patterns) : PatternMatches(text, 1, page_patterns[k], 1)

\* variant: a repeated text counts as a header whatever its length
RepeatedShortTextAnyLength(text, all_paragraphs_text) ==
    Count(all_paragraphs_text, text) > 3

\* lines 310-314: a short text that occurs more than 3 times
RepeatedShortText(text, all_paragraphs_text) ==
    Len(text) < 100 /\ Count(all_paragraphs_text, text) > 3

\* variant: the keyword must be the whole text
HasFooterKeywordExact(text) ==
    lower(text) \in footer_keywords /\ Len(text) < 150

\* lines 319-321
HasFooterKeyword(text) ==
    (\E keyword \in footer_keywords : Contains(lower(text), keyword)) /\ Len(text) < 150

\* _is_header_or_footer
is_header_or_footer(p, all_paragraphs_text) ==
    LET text == strip(p.text)
    IN  /\ text # <<>>
        /\ \/ IsPageNumber(text)
           \/ MatchesPagePattern(text)
           \/ RepeatedShortText(text, all_paragraphs_text)
           \/ HasFooterKeyword(text)

\* _parse_docx line 199: the stripped texts of the non-empty paragraphs
AllParagraphsText(d) ==
    LET stripped == [i \in 1..Len(d) |-> strip(d[i].text)]
    IN  SelectSeq(stripped, LAMBDA t : t # <<>>)

MaxTextLen == 4        \* characters of an enumerated paragraph text
MaxParas == 5          \* body paragraphs of a document

ParaAlphabet == {"2", ".", ")", " ", "a", "\n", "-"}
ScenarioC == <<"2", ".", " ", "S", "e", "c", "o", "n", "d", " ", "i", "t", "e", "m">>
ScenarioCBreak == <<"2", ".", " ", "S", "e", "c", "o", "n", "d", "\n", "i", "t", "e", "m">>
ParaTexts ==
    UNION {[1..n -> ParaAlphabet] : n \in 0..MaxTextLen} \cup {ScenarioC, ScenarioCBreak}
ParaStyles == {HeadingStyle(2), HeadingStyle(7), TitleStyle, SubtitleStyle, NormalStyle, <<>>}
Alignments == {"CENTER", "None"}

\* _process_docx_paragraph on one paragraph
ProcessDocxParagraph ==
    /\ para_lines = <<>>
    /\ \E text \in ParaTexts, style_name \in ParaStyles, alignment \in Alignments :
          LET p == [text |-> text, style_name |-> style_name, alignment |-> alignment]
          IN  /\ paragraph' = p
              /\ para_lines' = process_docx_paragraph(p)
    /\ UNCHANGED <<doc, doc_pos, doc_markdown, filter_headers_footers,
                   tableVars, pdfVars, parseVars, asmVars>>

\* a text of 100 characters
LongText == Repeat("y", 100)
DocTexts ==
    { <<"x">>, <<"7">>, <<"P", "a", "g", "e", " ", "2">>, LongText, <<>>,
      <<"C", "o", "p", "y", "r", "i", "g", "h", "t", " ", "x">> }

CopyrightText == <<"C", "o", "p", "y", "r", "i", "g", "h", "t", " ", "x">>

\* a body paragraph; embeds are the relationship ids of its inline drawings
BodyParagraph(text, embeds) ==
    [text |-> text, style_name |-> NormalStyle, alignment |-> "None", embeds |-> embeds]

\* _extract_docx_images: the images of the relationships that were read, saved and
\* found valid (lines 531-569; a relationship that fails is skipped)
extract_docx_images(rels) ==
    LET good == SelectSeq(rels, LAMBDA rel : rel.outcome = "ok")
    IN  [k \in 1..Len(good) |-> [rel_id |-> good[k].rel_id, url |-> good[k].url]]

\* _get_paragraph_images: per inline drawing the first image with its rel_id
get_paragraph_images(p, all_images) ==
    LET found == SelectSeq(p.embeds,
                     LAMBDA embed : \E k \in 1..Len(all_images) : all_images[k].rel_id = embed)
    IN  [k \in 1..Len(found) |->
            all_images[CHOOSE j \in 1..Len(all_images) :
                           /\ all_images[j].rel_id = found[k]
                           /\ \A i \in 1..(j - 1) : all_images[i].rel_id # found[k]]]

\* lines 250-253: an image line and an empty line per inline image
ParagraphImageLines(paragraph_images) ==
    FlattenLines([k \in 1..Len(paragraph_images) |->
        <<<<"!", "[", "I", "m", "a", "g", "e", "]", "(">> \o paragraph_images[k].url
            \o <<")">>, <<>>>>])

\* lines 244-253: what a paragraph that is not filtered appends
ParagraphOutput(p, images_info) ==
    process_docx_paragraph(p) \o ParagraphImageLines(get_paragraph_images(p, images_info))

\* the image relationships of the documents of SpecDocx: one image, extracted
DocRels == <<[rel_id |-> "rId1", outcome |-> "ok", url |-> ImageUrl(1)]>>

\* _parse_docx lines 188-207: the document is opened (its body holds paragraphs
\* only; the copyright paragraph holds the document's image)
OpenDocx ==
    /\ doc_pos = 0
    /\ \E n \in 1..MaxParas : \E texts \in [1..n -> DocTexts] :
          doc' = [i \in 1..n |->
                     BodyParagraph(texts[i],
                         IF texts[i] = CopyrightText THEN <<"rId1">> ELSE <<>>)]
    /\ doc_pos' = 1
    /\ doc_markdown' = <<>>
    /\ UNCHANGED <<paragraph, para_lines, filter_headers_footers,
                   tableVars, pdfVars, parseVars, asmVars>>

\* lines 236-242: the body paragraph is a header or footer and is skipped
FilterParagraph ==
    /\ doc_pos \in 1..Len(doc)
    /\ filter_headers_footers
    /\ is_header_or_footer(doc[doc_pos], AllParagraphsText(doc))
    /\ doc_pos' = doc_pos + 1
    /\ UNCHANGED <<paragraph, para_lines, doc, doc_markdown, filter_headers_footers,
                   tableVars, pdfVars, parseVars, asmVars>>

\* lines 244-253: the body paragraph is converted, its images follow it
ProcessParagraph ==
    /\ doc_pos \in 1..Len(doc)
    /\ ~(filter_headers_footers /\ is_header_or_footer(doc[doc_pos], AllParagraphsText(doc)))
    /\ doc_markdown' = doc_markdown
                        \o ParagraphOutput(doc[doc_pos], extract_docx_images(DocRels))
    /\ doc_pos' = doc_pos + 1
    /\ UNCHANGED <<paragraph, para_lines, doc, filter_headers_footers,
                   tableVars, pdfVars, parseVars, asmVars>>

-----------------------------------------------------------------------------
(* parse_document.  A str that only travels (a message, a path, the        *)
(* markdown) is a sequence of tokens; the empty str is <<>>.               *)

Extensions == {".docx", ".pdf", ".xlsx", ".xls", ".pptx", ".doc", ".ppt", ".txt"}

\* how the reader library treats the file: it reads it, or raises an exception
\* that carries a message, or raises one without (str(e) = '')
ReaderOutcomes == {"ok", "error", "error_no_message"}

\* convert_doc_to_docx: success, non-zero return code, no output file, timeout
ConverterOutcomes == {"ok", "failed", "no_output", "timeout"}

\* markdown_content of a sub-parser before _clean_markdown: a file without
\* renderable content (no line, or blank lines only), or one line of text
Contents == {<<>>, <<<<>>, <<" ">>>>, <<<<"t">>, <<>>>>}

\* the file behind file_path and the behaviour of the collaborators during a call
Environments ==
    [exists : BOOLEAN, ext : Extensions, reader : ReaderOutcomes,
     library : BOOLEAN,            \* the optional reader library was imported
     doc_converter : BOOLEAN,      \* enable_doc_conversion and a converter object
     converter : ConverterOutcomes,
     cleanup_temp : BOOLEAN,
     remove_ok : BOOLEAN,          \* os.remove of the temporary file succeeds
     content : Contents]           \* the lines the sub-parser assembles

\* str(e) of the exception the reader library raised
ReaderError(e) ==
    IF e.reader = "error" THEN <<"<reader error>">> ELSE <<>>

\* lines 162-173: the dictionary of parse_document's handler; file_size and
\* file_ext are locals only once the file was found to exist (lines 115-116)
Failure(error) ==
    [success |-> FALSE, error |-> error, markdown |-> <<>>, images_count |-> 0,
     images |-> <<>>,
     file_info |-> [name |-> <<"<name>">>,
                    size |-> IF env.exists THEN <<"<size>">> ELSE <<"0">>,
                    format |-> IF env.exists THEN <<env.ext>> ELSE <<"unknown">>]]

\* lines 1207-1214, 1304-1311, 1383-1390: the dictionary of the handlers of
\* _parse_xlsx, _parse_xls and _parse_pptx
ParserFailure(error, file_type) ==
    [success |-> FALSE, error |-> error, markdown |-> <<>>, images_count |-> 0,
     images |-> <<>>, file_type |-> file_type]

\* lines 264 and 442: the text that stands for an empty document
EmptyNote(file_type) ==
    IF file_type = "pdf" THEN <<"*PDF document content is empty or cannot be parsed*">>
    ELSE <<"*Document content is empty or cannot be parsed*">>

\* lines 260-264, 438-442, 1189, 1286, 1365: the cleaned markdown; _parse_docx and
\* _parse_pdf put a note in the place of an empty one
ResultMarkdown(lines, file_type) ==
    LET cleaned == clean_markdown(lines)
    IN  IF file_type \in {"docx", "pdf"} /\ strip(cleaned) = <<>>
        THEN EmptyNote(file_type) ELSE cleaned

\* the dictionary a sub-parser returns when it has read the file (lines 266-279,
\* 444-456, 1191-1203, 1288-1300, 1367-1379)
Success(e, file_type) ==
    [success |-> TRUE, error |-> None, markdown |-> ResultMarkdown(e.content, file_type),
     images_count |-> 1, images |-> <<"<image>">>, file_type |-> file_type,
     file_info |-> [name |-> <<"<name>">>, size |-> <<"<size>">>]]

\* _parse_docx and _parse_pdf: a result, or the exception re-raised (lines 281-283,
\* 458-460) into parse_document's handler
ParseOrRaise(e, file_type) ==
    IF e.reader = "ok" THEN Success(e, file_type) ELSE Failure(ReaderError(e))

\* _parse_xlsx, _parse_xls, _parse_pptx: the library check, then a result or the
\* sub-parser's own failure dictionary
ParseOptional(e, file_type) ==
    IF ~e.library THEN ParserFailure(<<"<library> is required to parse ", file_type>>, file_type)
    ELSE IF e.reader = "ok" THEN Success(e, file_type)
    ELSE ParserFailure(ReaderError(e), file_type)

\* variant: the output file is not looked for (lines 159-163 left out)
ConvertWithoutOutputCheck(e) ==
    CASE e.converter \in {"ok", "no_output"} -> <<TRUE, <<"<tmp>/", "<stem>", ".docx">>>>
      [] e.converter = "failed"    -> <<FALSE, <<"conversion failed: ", "<stderr>">>>>
      [] e.converter = "timeout"   -> <<FALSE, <<"conversion timed out (60 s)">>>>

\* doc_converter.py convert_doc_to_docx: (success, result)
convert_doc_to_docx(e) ==
    CASE e.converter = "ok"        -> <<TRUE, <<"<tmp>/", "<stem>", ".docx">>>>
      [] e.converter = "failed"    -> <<FALSE, <<"conversion failed: ", "<stderr>">>>>
      [] e.converter = "no_output" -> <<FALSE, <<"converted file not produced: ", "<path>">>>>
      [] e.converter = "timeout"   -> <<FALSE, <<"conversion timed out (60 s)">>>>

\* parse_document is called (line 98)
ParseCall ==
    /\ ppc = "none"
    /\ \E e \in Environments : env' = e
    /\ ppc' = "try"
    /\ UNCHANGED <<result, temp_file, conversions, tableVars, pdfVars, docxVars, asmVars>>

\* lines 112-113
MissingFile ==
    /\ ppc = "try" /\ ~env.exists
    /\ result' = Failure(<<"File does not exist: ", "<path>">>)
    /\ ppc' = "finally"
    /\ UNCHANGED <<env, temp_file, conversions, tableVars, pdfVars, docxVars, asmVars>>

\* lines 120-121
ParseDocx ==
    /\ ppc = "try" /\ env.exists /\ env.ext = ".docx"
    /\ result' = ParseOrRaise(env, "docx")
    /\ ppc' = "finally"
    /\ UNCHANGED <<env, temp_file, conversions, tableVars, pdfVars, docxVars, asmVars>>

\* lines 122-123
ParsePdf ==
    /\ ppc = "try" /\ env.exists /\ env.ext = ".pdf"
    /\ result' = ParseOrRaise(env, "pdf")
    /\ ppc' = "finally"
    /\ UNCHANGED <<env, temp_file, conversions, tableVars, pdfVars, docxVars, asmVars>>

\* lines 124-129
ParseOptionalFormat ==
    /\ ppc = "try" /\ env.exists /\ env.ext \in {".xlsx", ".xls", ".pptx"}
    /\ result' = ParseOptional(env, CASE env.ext = ".xlsx" -> "xlsx"
                                      [] env.ext = ".xls" -> "xls"
                                      [] env.ext = ".pptx" -> "pptx")
    /\ ppc' = "finally"
    /\ UNCHANGED <<env, temp_file, conversions, tableVars, pdfVars, docxVars, asmVars>>

\* lines 130-133: a .doc file and no converter
NoConverter ==
    /\ ppc = "try" /\ env.exists /\ env.ext = ".doc" /\ ~env.doc_converter
    /\ result' = Failure(<<"DOC conversion feature is not enabled or LibreOffice is not installed">>)
    /\ ppc' = "finally"
    /\ UNCHANGED <<env, temp_file, conversions, tableVars, pdfVars, docxVars, asmVars>>

\* lines 135-141: the converter runs
ConvertDoc ==
    /\ ppc = "try" /\ env.exists /\ env.ext = ".doc" /\ env.doc_converter
    /\ conversions' = conversions + 1
    /\ IF convert_doc_to_docx(env)[1]
       THEN /\ temp_file' = "present"
            /\ ppc' = "converted"
            /\ UNCHANGED result
       ELSE /\ result' = Failure(<<"DOC conversion failed: ">> \o convert_doc_to_docx(env)[2])
            /\ ppc' = "finally"
            /\ UNCHANGED temp_file
    /\ UNCHANGED <<env, tableVars, pdfVars, docxVars, asmVars>>

\* lines 144-153: the converted file is parsed as docx
ParseConverted ==
    /\ ppc = "converted"
    /\ result' = IF env.reader = "ok"
                 THEN [Success(env, "docx") EXCEPT !.file_type = "doc (converted from docx)"]
                 ELSE Failure(ReaderError(env))
    /\ ppc' = "finally"
    /\ UNCHANGED <<env, temp_file, conversions, tableVars, pdfVars, docxVars, asmVars>>

\* lines 154-158: .ppt and every other extension
Unsupported ==
    /\ ppc = "try" /\ env.exists /\ env.ext \in {".ppt", ".txt"}
    /\ result' = Failure(IF env.ext = ".ppt"
                         THEN <<"The .ppt format is not supported">>
                         ELSE <<"Unsupported file format: ", env.ext>>)
    /\ ppc' = "finally"
    /\ UNCHANGED <<env, temp_file, conversions, tableVars, pdfVars, docxVars, asmVars>>

\* variant: the temporary file is removed whatever cleanup_temp says
CleanupAlways(temp, e) ==
    IF temp = "present" /\ e.remove_ok THEN "removed" ELSE temp

\* lines 176-182: the temporary file after the finally clause; an os.remove that
\* raises is logged and the file stays
Cleanup(temp, e) ==
    IF temp = "present" /\ e.cleanup_temp /\ e.remove_ok THEN "removed" ELSE temp

\* lines 174-182: the finally clause, then the return
Finally ==
    /\ ppc = "finally"
    /\ temp_file' = Cleanup(temp_file, env)
    /\ ppc' = "done"
    /\ UNCHANGED <<env, result, conversions, tableVars, pdfVars, docxVars, asmVars>>

-----------------------------------------------------------------------------
(* _clean_markdown on its own.                                             *)

MaxCleanLines == 5     \* lines handed to _clean_markdown

\* rendered lines: empty, blank, text, text with trailing blanks, and a line that
\* carries its own newlines (like the table title of line 224)
CleanLines == {<<>>, <<" ">>, <<"a">>, <<"b", " ">>, <<"\n", "t", "\n">>}

\* _clean_markdown is applied to the list of lines
CleanMarkdown ==
    /\ unit_state = "lines"
    /\ result_markdown' = clean_markdown(markdown_lines)
    /\ unit_state' = "cleaned"
    /\ UNCHANGED <<body, unit_pos, markdown_lines, tableVars, pdfVars, docxVars, parseVars>>

-----------------------------------------------------------------------------
(* The unit loops of _parse_docx (body elements, lines 214-257) and of     *)
(* _parse_pdf (pages, lines 387-433), with units that fail.                *)

MaxUnits == 4          \* body elements or pages of a document

\* "*[表格解析失败]*", line 921
TableFailedNote == <<"*", "[", "<biao>", "<ge>", "<jie>", "<xi>", "<shi>", "<bai>", "]", "*">>

\* f"\n**Table {table_index + 1}:**\n", line 224
DocxTableTitle(table_index) ==
    <<"\n", "*", "*", "T", "a", "b", "l", "e", " ">> \o IntStr(table_index + 1)
        \o <<":", "*", "*", "\n">>

\* the image relationships of unit i: the first cannot be read, the second can
UnitRels(i) ==
    <<[rel_id |-> <<"bad">> \o IntStr(i), outcome |-> "error", url |-> <<"v">> \o IntStr(i)],
      [rel_id |-> <<"rId">> \o IntStr(i), outcome |-> "ok", url |-> ImageUrl(i)]>>

\* the body elements a DOCX document may have at position i: a paragraph, a
\* paragraph with two inline images, a paragraph on which the conversion raises, a
\* table, a table whose rows cannot be read
DocxUnits(i) ==
    LET both == <<UnitRels(i)[1].rel_id, UnitRels(i)[2].rel_id>>
        Para(embeds, raises) ==
            [tag |-> "p", text |-> <<"p">> \o IntStr(i), style_name |-> NormalStyle,
             alignment |-> "None", embeds |-> embeds, raises |-> raises]
    IN  {Para(<<>>, FALSE), Para(both, FALSE), Para(<<>>, TRUE)}
        \cup {[tag |-> "tbl", rows |-> <<<<<<"h">> \o IntStr(i)>>, <<<<"c">> \o IntStr(i)>>>>,
                raises |-> raises] : raises \in BOOLEAN}

\* the pages a PDF document may have at position i: a page of text, a page of text
\* with two images, a page on which the reader raises
PdfUnits(i) ==
    { [tag |-> "page", lines |-> <<<<"g">> \o IntStr(i), <<>>>>, images |-> <<>>,
       raises |-> FALSE],
      [tag |-> "page", lines |-> <<<<"g">> \o IntStr(i), <<>>>>, images |-> UnitRels(i),
       raises |-> FALSE],
      [tag |-> "page", lines |-> <<>>, images |-> <<>>, raises |-> TRUE] }

\* the relationships of a DOCX body: those of the paragraphs with inline images
RECURSIVE BodyRels(_, _)
BodyRels(units, i) ==
    IF i > Len(units) THEN <<>>
    ELSE (IF units[i].tag = "p" /\ units[i].embeds # <<>> THEN UnitRels(i) ELSE <<>>)
         \o BodyRels(units, i + 1)

\* line 199 over the paragraphs of the body
BodyParagraphsText(units) ==
    AllParagraphsText(SelectSeq(units, LAMBDA u : u.tag = "p"))

\* table_index when the element at position i is reached: the tables before it
TableIndex(units, i) == Cardinality({k \in 1..(i - 1) : units[k].tag = "tbl"})

\* lines 221-226 with _convert_docx_table_to_markdown's own handler (lines 919-921)
DocxTableOutput(table, table_index) ==
    LET table_md == IF table.raises THEN <<TableFailedNote>>
                    ELSE convert_docx_table_to_markdown(table.rows)
    IN  IF table_md # <<>> THEN <<DocxTableTitle(table_index)>> \o table_md \o <<<<>>>>
        ELSE <<>>

\* variant: the exception of a unit leaves the loop and the parser
UnitErrorPropagates(pos) == [state |-> "raised", pos |-> pos]

\* lines 255-257 and 431-433: the handler inside the loop logs the exception of a
\* unit and the loop goes on with the next unit
UnitErrorCaught(pos) == [state |-> "loop", pos |-> pos + 1]

\* lines 188 and 380: the document is opened
OpenDocument ==
    /\ unit_state = "none"
    /\ \E file_type \in {"docx", "pdf"}, n \in 1..MaxUnits :
          \E units \in [1..n -> UNION {DocxUnits(i) \cup PdfUnits(i) : i \in 1..n}] :
             /\ \A i \in 1..n :
                   units[i] \in (IF file_type = "docx" THEN DocxUnits(i) ELSE PdfUnits(i))
             /\ body' = [file_type |-> file_type, units |-> units,
                         rels |-> IF file_type = "docx" THEN BodyRels(units, 1) ELSE <<>>]
    /\ unit_pos' = 1
    /\ unit_state' = "loop"
    /\ markdown_lines' = <<>>
    /\ UNCHANGED <<result_markdown, tableVars, pdfVars, docxVars, parseVars>>

\* lines 188 and 380 raise: the handlers of lines 281-283 and 458-460 raise again
OpenFails ==
    /\ unit_state = "none"
    /\ unit_state' = "raised"
    /\ UNCHANGED <<body, unit_pos, markdown_lines, result_markdown,
                   tableVars, pdfVars, docxVars, parseVars>>

\* lines 216-231: a table of the body
DocxTable ==
    /\ unit_state = "loop" /\ unit_pos \in 1..Len(body.units)
    /\ body.units[unit_pos].tag = "tbl"
    /\ markdown_lines' = markdown_lines
          \o DocxTableOutput(body.units[unit_pos], TableIndex(body.units, unit_pos))
    /\ unit_pos' = unit_pos + 1
    /\ UNCHANGED <<body, unit_state, result_markdown,
                   tableVars, pdfVars, docxVars, parseVars>>

\* lines 234-253: a paragraph of the body
DocxParagraph ==
    /\ unit_state = "loop" /\ unit_pos \in 1..Len(body.units)
    /\ body.units[unit_pos].tag = "p" /\ ~body.units[unit_pos].raises
    /\ markdown_lines' = markdown_lines \o
          (IF filter_headers_footers
              /\ is_header_or_footer(body.units[unit_pos], BodyParagraphsText(body.units))
           THEN <<>>
           ELSE ParagraphOutput(body.units[unit_pos], extract_docx_images(body.rels)))
    /\ unit_pos' = unit_pos + 1
    /\ UNCHANGED <<body, unit_state, result_markdown,
                   tableVars, pdfVars, docxVars, parseVars>>

\* lines 238-257: the paragraph raises before anything is appended for it
DocxParagraphFails ==
    /\ unit_state = "loop" /\ unit_pos \in 1..Len(body.units)
    /\ body.units[unit_pos].tag = "p" /\ body.units[unit_pos].raises
    /\ unit_state' = UnitErrorCaught(unit_pos).state
    /\ unit_pos' = UnitErrorCaught(unit_pos).pos
    /\ UNCHANGED <<body, markdown_lines, result_markdown,
                   tableVars, pdfVars, docxVars, parseVars>>

\* lines 388-429: a page; _extract_pdf_images skips an image that fails (lines
\* 625-627)
PdfPage ==
    /\ unit_state = "loop" /\ unit_pos \in 1..Len(body.units)
    /\ body.units[unit_pos].tag = "page" /\ ~body.units[unit_pos].raises
    /\ markdown_lines' = markdown_lines \o body.units[unit_pos].lines
          \o ParagraphImageLines(extract_docx_images(body.units[unit_pos].images))
    /\ unit_pos' = unit_pos + 1
    /\ UNCHANGED <<body, unit_state, result_markdown,
                   tableVars, pdfVars, docxVars, parseVars>>

\* lines 389-392 raise: the page is skipped (lines 431-433)
PdfPageFails ==
    /\ unit_state = "loop" /\ unit_pos \in 1..Len(body.units)
    /\ body.units[unit_pos].tag = "page" /\ body.units[unit_pos].raises
    /\ unit_state' = UnitErrorCaught(unit_pos).state
    /\ unit_pos' = UnitErrorCaught(unit_pos).pos
    /\ UNCHANGED <<body, markdown_lines, result_markdown,
                   tableVars, pdfVars, docxVars, parseVars>>

\* lines 259-279 and 435-456: the markdown is cleaned and the result returned
FinishDocument ==
    /\ unit_state = "loop" /\ unit_pos = Len(body.units) + 1
    /\ result_markdown' = ResultMarkdown(markdown_lines, body.file_type)
    /\ result' = [success |-> TRUE, error |-> None,
                  markdown |-> ResultMarkdown(markdown_lines, body.file_type),
                  images_count |-> Len(extract_docx_images(body.rels)),
                  images |-> extract_docx_images(body.rels),
                  file_type |-> body.file_type,
                  file_info |-> [name |-> <<"<name>">>, size |-> <<"<size>">>]]
    /\ unit_state' = "done"
    /\ UNCHANGED <<body, unit_pos, markdown_lines, env, ppc, temp_file, conversions,
                   tableVars, pdfVars, docxVars>>

-----------------------------------------------------------------------------
(* Specifications.                                                         *)

InitTable ==
    /\ table_data \in Matrices
    /\ markdown_table = <<>> /\ renderer = "none" /\ data_rows = -1
    /\ last_table_block_indices = {}
    /\ pc = [c \in CallIds |-> "idle"]
    /\ page = [c \in CallIds |-> EmptyPage]
    /\ tables = [c \in CallIds |-> <<>>]
    /\ content_blocks = [c \in CallIds |-> <<>>]
    /\ markdown_content = [c \in CallIds |-> <<>>]
    /\ pages_done = [c \in CallIds |-> 0]
    /\ paragraph = <<>> /\ para_lines = <<>> /\ doc = <<>> /\ doc_pos = 0
    /\ doc_markdown = <<>> /\ filter_headers_footers = TRUE
    /\ env = <<>> /\ ppc = "none" /\ result = <<>>
    /\ temp_file = "none" /\ conversions = 0
    /\ body = <<>> /\ unit_pos = 0 /\ unit_state = "none"
    /\ markdown_lines = <<>> /\ result_markdown = None

NextTable == RenderPdf \/ RenderList \/ RenderDocx \/ CountDataRows

SpecTable == InitTable /\ [][NextTable]_vars

\* the parser as constructed (__init__, line 86), no call running yet
InitPdf ==
    /\ table_data = <<>>
    /\ markdown_table = <<>> /\ renderer = "none" /\ data_rows = -1
    /\ last_table_block_indices = {}
    /\ pc = [c \in CallIds |-> "idle"]
    /\ page = [c \in CallIds |-> EmptyPage]
    /\ tables = [c \in CallIds |-> <<>>]
    /\ content_blocks = [c \in CallIds |-> <<>>]
    /\ markdown_content = [c \in CallIds |-> <<>>]
    /\ pages_done = [c \in CallIds |-> 0]
    /\ paragraph = <<>> /\ para_lines = <<>> /\ doc = <<>> /\ doc_pos = 0
    /\ doc_markdown = <<>> /\ filter_headers_footers = TRUE
    /\ env = <<>> /\ ppc = "none" /\ result = <<>>
    /\ temp_file = "none" /\ conversions = 0
    /\ body = <<>> /\ unit_pos = 0 /\ unit_state = "none"
    /\ markdown_lines = <<>> /\ result_markdown = None

NextPdf ==
    \/ StartPage(1) \/ FailPage(1) \/ ExtractStandard(1) \/ ExtractDetected(1)
    \/ OrderContent(1) \/ PlainContent(1) \/ NextIteration(1)

SpecPdf == InitPdf /\ [][NextPdf]_vars

\* two parse calls on one parser instance, interleaved between the steps of a page
NextPdfShared ==
    \/ StartSharedPage(1) \/ FailPage(1) \/ ExtractStandard(1) \/ ExtractDetected(1)
    \/ OrderContent(1) \/ PlainContent(1) \/ NextIteration(1)
    \/ StartSharedPage(2) \/ FailPage(2) \/ ExtractStandard(2) \/ ExtractDetected(2)
    \/ OrderContent(2) \/ PlainContent(2) \/ NextIteration(2)

SpecPdfShared == InitPdf /\ [][NextPdfShared]_vars

\* no paragraph classified yet
InitPara ==
    /\ table_data = <<>>
    /\ markdown_table = <<>> /\ renderer = "none" /\ data_rows = -1
    /\ last_table_block_indices = {}
    /\ pc = [c \in CallIds |-> "idle"]
    /\ page = [c \in CallIds |-> EmptyPage]
    /\ tables = [c \in CallIds |-> <<>>]
    /\ content_blocks = [c \in CallIds |-> <<>>]
    /\ markdown_content = [c \in CallIds |-> <<>>]
    /\ pages_done = [c \in CallIds |-> 0]
    /\ paragraph = <<>> /\ para_lines = <<>> /\ doc = <<>> /\ doc_pos = 0
    /\ doc_markdown = <<>> /\ filter_headers_footers = TRUE
    /\ env = <<>> /\ ppc = "none" /\ result = <<>>
    /\ temp_file = "none" /\ conversions = 0
    /\ body = <<>> /\ unit_pos = 0 /\ unit_state = "none"
    /\ markdown_lines = <<>> /\ result_markdown = None

NextPara == ProcessDocxParagraph

SpecPara == InitPara /\ [][NextPara]_vars

\* the parser as constructed, with either setting of filter_headers_footers
InitDocx ==
    /\ table_data = <<>>
    /\ markdown_table = <<>> /\ renderer = "none" /\ data_rows = -1
    /\ last_table_block_indices = {}
    /\ pc = [c \in CallIds |-> "idle"]
    /\ page = [c \in CallIds |-> EmptyPage]
    /\ tables = [c \in CallIds |-> <<>>]
    /\ content_blocks = [c \in CallIds |-> <<>>]
    /\ markdown_content = [c \in CallIds |-> <<>>]
    /\ pages_done = [c \in CallIds |-> 0]
    /\ paragraph = <<>> /\ para_lines = <<>> /\ doc = <<>> /\ doc_pos = 0
    /\ doc_markdown = <<>> /\ filter_headers_footers \in BOOLEAN
    /\ env = <<>> /\ ppc = "none" /\ result = <<>>
    /\ temp_file = "none" /\ conversions = 0
    /\ body = <<>> /\ unit_pos = 0 /\ unit_state = "none"
    /\ markdown_lines = <<>> /\ result_markdown = None

NextDocx == OpenDocx \/ FilterParagraph \/ ProcessParagraph

SpecDocx == InitDocx /\ [][NextDocx]_vars

\* the parser as constructed, no call made yet
InitParse ==
    /\ table_data = <<>>
    /\ markdown_table = <<>> /\ renderer = "none" /\ data_rows = -1
    /\ last_table_block_indices = {}
    /\ pc = [c \in CallIds |-> "idle"]
    /\ page = [c \in CallIds |-> EmptyPage]
    /\ tables = [c \in CallIds |-> <<>>]
    /\ content_blocks = [c \in CallIds |-> <<>>]
    /\ markdown_content = [c \in CallIds |-> <<>>]
    /\ pages_done = [c \in CallIds |-> 0]
    /\ paragraph = <<>> /\ para_lines = <<>> /\ doc = <<>> /\ doc_pos = 0
    /\ doc_markdown = <<>> /\ filter_headers_footers = TRUE
    /\ env = <<>> /\ ppc = "none" /\ result = <<>>
    /\ temp_file = "none" /\ conversions = 0
    /\ body = <<>> /\ unit_pos = 0 /\ unit_state = "none"
    /\ markdown_lines = <<>> /\ result_markdown = None

NextParse ==
    \/ ParseCall \/ MissingFile \/ ParseDocx \/ ParsePdf \/ ParseOptionalFormat
    \/ NoConverter \/ ConvertDoc \/ ParseConverted \/ Unsupported \/ Finally

SpecParse == InitParse /\ [][NextParse]_vars

\* any list of at most MaxCleanLines rendered lines
InitClean ==
    /\ table_data = <<>>
    /\ markdown_table = <<>> /\ renderer = "none" /\ data_rows = -1
    /\ last_table_block_indices = {}
    /\ pc = [c \in CallIds |-> "idle"]
    /\ page = [c \in CallIds |-> EmptyPage]
    /\ tables = [c \in CallIds |-> <<>>]
    /\ content_blocks = [c \in CallIds |-> <<>>]
    /\ markdown_content = [c \in CallIds |-> <<>>]
    /\ pages_done = [c \in CallIds |-> 0]
    /\ paragraph = <<>> /\ para_lines = <<>> /\ doc = <<>> /\ doc_pos = 0
    /\ doc_markdown = <<>> /\ filter_headers_footers = TRUE
    /\ env = <<>> /\ ppc = "none" /\ result = <<>>
    /\ temp_file = "none" /\ conversions = 0
    /\ body = <<>> /\ unit_pos = 0 /\ unit_state = "lines"
    /\ markdown_lines \in UNION {[1..n -> CleanLines] : n \in 0..MaxCleanLines}
    /\ result_markdown = None

NextClean == CleanMarkdown

SpecClean == InitClean /\ [][NextClean]_vars

\* the parser as constructed, no document opened yet
InitUnits ==
    /\ table_data = <<>>
    /\ markdown_table = <<>> /\ renderer = "none" /\ data_rows = -1
    /\ last_table_block_indices = {}
    /\ pc = [c \in CallIds |-> "idle"]
    /\ page = [c \in CallIds |-> EmptyPage]
    /\ tables = [c \in CallIds |-> <<>>]
    /\ content_blocks = [c \in CallIds |-> <<>>]
    /\ markdown_content = [c \in CallIds |-> <<>>]
    /\ pages_done = [c \in CallIds |-> 0]
    /\ paragraph = <<>> /\ para_lines = <<>> /\ doc = <<>> /\ doc_pos = 0
    /\ doc_markdown = <<>> /\ filter_headers_footers = TRUE
    /\ env = <<>> /\ ppc = "none" /\ result = <<>>
    /\ temp_file = "none" /\ conversions = 0
    /\ body = <<>> /\ unit_pos = 0 /\ unit_state = "none"
    /\ markdown_lines = <<>> /\ result_markdown = None

NextUnits ==
    \/ OpenDocument \/ OpenFails \/ DocxTable \/ DocxParagraph \/ DocxParagraphFails
    \/ PdfPage \/ PdfPageFails \/ FinishDocument

SpecUnits == InitUnits /\ [][NextUnits]_vars



-----------------------------------------------------------------------------
(* Properties of the PDF page pipeline (SpecPdf).                          *)

\* the page of call c has gone through the ContentOrderer
Routed(c) == pc[c] = "emitted" /\ tables[c] # <<>>

\* the text t is a cell of the rendered table line
IsCellOf(t, line) == Contains(line, <<"|", " ">> \o t \o <<" ", "|">>)

\* the non-empty line texts of block i (1-based) of a page
BlockTexts(p, i) ==
    {LineText(p.blocks[i].lines[k]) : k \in 1..Len(p.blocks[i].lines)} \ {<<>>}

\* the structural indices an emitted block draws its content from: its own index for
\* a text or image block, the blocks whose lines are cells of it for a table
Sources(p, b) ==
    IF b.type = "table"
    THEN {i - 1 : i \in {j \in 1..Len(p.blocks) :
                    \E t \in BlockTexts(p, j) : \E l \in 1..Len(b.content) :
                        IsCellOf(t, b.content[l])}}
    ELSE {b.sort_key[2]}

\* C1: on every page that goes through the ContentOrderer, whatever pages came
\* before it, no block index contributes to two emitted blocks: never to its own
\* Text/Image block and to the detected table, and never to two blocks of a kind.
C1_ExactlyOnce ==
    \A c \in CallIds :
        Routed(c) =>
            \A i, j \in 1..Len(content_blocks[c]) :
                i < j => Sources(page[c], content_blocks[c][i])
                            \cap Sources(page[c], content_blocks[c][j]) = {}

\* a second page with a detected table drawn from two blocks, beside a text block
C1_Witness ==
    /\ Routed(1) /\ pages_done[1] = 2
    /\ \E i, j \in 1..Len(content_blocks[1]) :
          /\ content_blocks[1][i].type = "table"
          /\ Cardinality(Sources(page[1], content_blocks[1][i])) >= 2
          /\ content_blocks[1][j].type = "text"

\* the page's text blocks a native table covers (they are left to the table)
Covered(c, i) ==
    InTable(page[c].blocks[i].bbox,
            SelectSeq(tables[c], LAMBDA t : t.type = "standard" /\ t.bbox # <<>>))

\* C2 (as claimed): on a page that goes through the ContentOrderer no text line is
\* lost: every non-empty line is in the Text block of its own block index, or is a
\* cell of an emitted table, or lies in a block a native table covers.
C2_NoLineLost ==
    \A c \in CallIds :
        Routed(c) =>
            \A i \in 1..Len(page[c].blocks) : \A t \in BlockTexts(page[c], i) :
                \/ Covered(c, i)
                \/ \E k \in 1..Len(content_blocks[c]) :
                      LET b == content_blocks[c][k]
                      IN  \/ b.type = "text" /\ b.sort_key[2] = i - 1 /\ Contains(b.content, t)
                          \/ b.type = "table" /\ \E l \in 1..Len(b.content) :
                                                    IsCellOf(t, b.content[l])

\* C3: the ContentOrderer's result is non-decreasing in y_position; blocks of equal
\* y_position come in ascending order of their tie rank, which is the block index
\* for a text, an image or the detected table and -1 for a native table (so a native
\* table comes before any text or image at its y).
C3_Ordered ==
    \A c \in CallIds :
        Routed(c) =>
            \A i, j \in 1..Len(content_blocks[c]) :
                i < j =>
                    LET a == content_blocks[c][i]
                        b == content_blocks[c][j]
                    IN  /\ a.y_pos <= b.y_pos
                        /\ a.y_pos = b.y_pos => a.sort_key[2] <= b.sort_key[2]
                        /\ a.sort_key[1] = a.y_pos /\ b.sort_key[1] = b.y_pos
                        /\ (a.type = "table" /\ a.sort_key[2] = -1) \/ a.sort_key[2] >= 0

\* a native table, a text block at the table's y after it, an image, and two
\* blocks the sort has put in the reverse of their structural order
C3_Witness ==
    /\ Routed(1)
    /\ \E i, j, k \in 1..Len(content_blocks[1]) :
          /\ i < j
          /\ content_blocks[1][i].sort_key[2] = -1
          /\ content_blocks[1][j].type = "text"
          /\ content_blocks[1][j].y_pos = content_blocks[1][i].y_pos
          /\ content_blocks[1][k].type = "image"
    /\ \E i, j \in 1..Len(content_blocks[1]) :
          i < j /\ content_blocks[1][i].sort_key[2] > content_blocks[1][j].sort_key[2]
                /\ content_blocks[1][j].sort_key[2] >= 0

\* the page of call c has a detected table
HasDetected(c) ==
    pc[c] \in {"order", "emitted"} /\ tables[c] # <<>> /\ tables[c][1].type = "detected"

RowTexts(rows) == [r \in 1..Len(rows) |-> [k \in 1..Len(rows[r]) |-> rows[r][k].text]]

\* C7: an accepted detected table is the rendering of exactly the rows of the
\* clustering whose cell count is the modal column count, in the clustering's
\* order; those rows come in ascending y, and the cells of a row in ascending x0.
C7_ModalRows ==
    \A c \in CallIds :
        HasDetected(c) =>
            LET rows == DetectRows(page[c])
                col_counts == [r \in 1..Len(rows) |-> Len(rows[r])]
            IN  /\ \E m \in Modes(col_counts) :
                      tables[c][1].content =
                          convert_pdf_table_to_markdown(
                              RowTexts(SelectSeq(rows, LAMBDA row : Len(row) = m)),
                              pages_done[c] - (IF pc[c] = "emitted" THEN 1 ELSE 0), 0)
                /\ \A r \in 1..Len(rows) : \A k \in 1..(Len(rows[r]) - 1) :
                      rows[r][k].x0 <= rows[r][k + 1].x0
                /\ \A r \in 1..(Len(rows) - 1) :
                      \A k \in 1..Len(rows[r]), l \in 1..Len(rows[r + 1]) :
                          rows[r][k].y0 < rows[r + 1][l].y0

\* Scenario A: rows [A,B], [C,D], [E] give the table of the two rows [A,B], [C,D]
C7_Witness ==
    /\ HasDetected(1)
    /\ RowTexts(DetectRows(page[1])) =
          <<<<<<"A">>, <<"B">>>>, <<<<"C">>, <<"D">>>>, <<<<"E">>>>>>
    /\ tables[1][1].content =
          <<PdfTitle(0, 0), GridLine(<<<<"A">>, <<"B">>>>), GridLine(<<Dashes, Dashes>>),
            GridLine(<<<<"C">>, <<"D">>>>)>>

\* the first position at which t occurs in s, 0 when it does not occur
FirstIndex(s, t) ==
    LET hits == {i \in 1..(Len(s) - Len(t) + 1) : SubSeq(s, i, i + Len(t) - 1) = t}
    IN  IF hits = {} THEN 0 ELSE Min(hits)

\* the page call c has emitted has exactly two non-empty text lines, no native table
TwoLinePage(c) ==
    /\ pc[c] = "emitted"
    /\ page[c].native = <<>>
    /\ Len(CollectTextBlocks(page[c].blocks, 1)) = 2

\* the characters call c has emitted for its page
PageOutput(c) == FlattenLines(markdown_content[c])

\* C9 (as claimed): a page of two text lines and no native table is rejected by the
\* detector, nothing is recorded, and both lines come out ordered by y_position.
C9_OrderedByY ==
    \A c \in CallIds :
        TwoLinePage(c) =>
            LET ls == CollectTextBlocks(page[c].blocks, 1)
            IN  /\ tables[c] = <<>>
                /\ last_table_block_indices = {}
                /\ \A i, j \in 1..2 :
                      ls[i].y0 < ls[j].y0 =>
                          /\ FirstIndex(PageOutput(c), ls[i].text) > 0
                          /\ FirstIndex(PageOutput(c), ls[i].text)
                                < FirstIndex(PageOutput(c), ls[j].text)

\* C9 (amended): a page of two text lines and no native table is rejected by the
\* detector and records no block index; it does not go through the ContentOrderer:
\* both lines come out in the structural order of their blocks, whatever their y,
\* and the page's images come after the text.
C9_PlainOrder ==
    \A c \in CallIds :
        TwoLinePage(c) =>
            LET ls == CollectTextBlocks(page[c].blocks, 1)
                out == PageOutput(c)
            IN  /\ tables[c] = <<>>
                /\ last_table_block_indices = {}
                /\ content_blocks[c] = <<>>
                /\ 0 < FirstIndex(out, ls[1].text)
                /\ FirstIndex(out, ls[1].text) < FirstIndex(out, ls[2].text)
                /\ \A k \in 1..Len(page[c].images) :
                      FirstIndex(out, ls[2].text)
                          < FirstIndex(out, <<"(">> \o page[c].images[k] \o <<")">>)

\* two lines in two blocks, the first block lower on the page than the second
C9_Witness ==
    /\ TwoLinePage(1)
    /\ Len(page[1].blocks) >= 2
    /\ LET ls == CollectTextBlocks(page[1].blocks, 1)
       IN  ls[1].y0 > ls[2].y0 /\ ls[1].block_idx # ls[2].block_idx
    /\ page[1].images # <<>>
    /\ markdown_content[1] # <<>>

-----------------------------------------------------------------------------
(* Properties of the table renderers (SpecTable).                          *)

\* the number of cells of a rendered grid line "| c1 | c2 | ... |"
CellsInLine(line) ==
    Cardinality({i \in 1..(Len(line) - 2) : SubSeq(line, i, i + 2) = <<" ", "|", " ">>}) + 1

\* the grid lines of a rendered table (its title and notes are not grid lines)
GridLines(md) == SelectSeq(md, LAMBDA line : startswith(line, <<"|", " ">>))

\* C4 (as claimed): whatever renderer rendered the matrix, ragged or not, the header
\* line, the separator line and every data line have the same number of cells.
C4_Rectangular ==
    renderer # "none" =>
        \A i, j \in 1..Len(GridLines(markdown_table)) :
            CellsInLine(GridLines(markdown_table)[i]) = CellsInLine(GridLines(markdown_table)[j])

\* the header line of the rendered PDF table is the generated one (column labels)
HeaderGenerated(md) ==
    GridLines(md)[1] = GridLine([k \in 1..CellsInLine(GridLines(md)[1]) |-> ColumnLabel(k)])

\* C5 (as claimed): the grid recovered from a rendered PDF table has the input
\* matrix's counts: its data rows (plus the header row when that is the input's
\* first row) are as many as the input's rows, its header cells as many as the
\* input's columns.
C5_RoundTrip ==
    (renderer = "pdf" /\ data_rows # -1) =>
        IF GridLines(markdown_table) = <<>>
        THEN Len(table_data) = 0
        ELSE /\ data_rows + (IF HeaderGenerated(markdown_table) THEN 0 ELSE 1)
                    = Len(table_data)
             /\ CellsInLine(GridLines(markdown_table)[1])
                    = SeqMax([r \in 1..Len(table_data) |-> Len(table_data[r])])

-----------------------------------------------------------------------------
(* Properties of the DOCX paragraph handling (SpecPara, SpecDocx).         *)

\* C8 (as claimed): a paragraph that is neither a heading nor centred and whose
\* text is <number><. or )><whitespace><rest> is rendered as "1. <rest>" followed by
\* the empty line, with the whole of <rest>.
C8_WholeRest ==
    LET t == strip(paragraph.text)
        b == RunEnd(t, 1, Digits)
        w == RunEnd(t, b + 1, Whitespace)
    IN  (/\ para_lines # <<>>
         /\ ~startswith(paragraph.style_name, HeadingPrefix)
         /\ lower(paragraph.style_name) \notin {lower(TitleStyle), lower(SubtitleStyle)}
         /\ paragraph.alignment # "CENTER"
         /\ b > 1 /\ b <= Len(t) /\ t[b] \in {".", ")"}
         /\ w > b + 1 /\ w <= Len(t))
        => para_lines = <<<<"1", ".", " ">> \o SubSeq(t, w, Len(t)), <<>>>>

\* the body paragraph at doc_pos is dealt with in this step
ParagraphStep == doc_pos \in 1..Len(doc) /\ doc_pos' = doc_pos + 1

\* how often the stripped text of the paragraph at doc_pos occurs in the document
Occurrences == Count(AllParagraphsText(doc), strip(doc[doc_pos].text))

\* C6 (as claimed): with filtering enabled, in a document of more than 4 non-empty
\* paragraphs, a paragraph whose text occurs 4 or more times is filtered (nothing is
\* appended for it) and one whose text occurs exactly 3 times is kept.
C6_FourFilteredThreeKept ==
    [][(/\ filter_headers_footers
        /\ ParagraphStep
        /\ Len(AllParagraphsText(doc)) > 4
        /\ strip(doc[doc_pos].text) # <<>>)
       => /\ Occurrences >= 4 => doc_markdown' = doc_markdown
          /\ Occurrences = 3 => doc_markdown' # doc_markdown]_vars

\* C6 (amended): with filtering enabled, a paragraph whose stripped text is shorter
\* than 100 characters and occurs 4 or more times is filtered; a paragraph whose text
\* occurs at most 3 times, or has 100 characters or more, is kept unless it is a
\* page number, matches a page-number pattern or holds a footer keyword.
C6_ShortRepeatedFiltered ==
    [][(/\ filter_headers_footers
        /\ ParagraphStep
        /\ strip(doc[doc_pos].text) # <<>>)
       => LET t == strip(doc[doc_pos].text)
          IN  /\ (Len(t) < 100 /\ Occurrences >= 4) => doc_markdown' = doc_markdown
              /\ ((Occurrences <= 3 \/ Len(t) >= 100)
                    /\ ~IsPageNumber(t) /\ ~MatchesPagePattern(t) /\ ~HasFooterKeyword(t))
                  => doc_markdown' # doc_markdown]_vars

\* the document <<x, x, x, x, long>> has been traversed: the short text that occurs
\* four times was filtered each time, the long paragraph was kept
C6_Witness ==
    /\ filter_headers_footers
    /\ doc_pos = 6
    /\ [i \in 1..Len(doc) |-> doc[i].text] = <<<<"x">>, <<"x">>, <<"x">>, <<"x">>, LongText>>
    /\ doc_markdown = <<LongText, <<>>>>

-----------------------------------------------------------------------------
(* Properties of parse_document (SpecParse).                               *)

\* C10 (as claimed): every call returns a dictionary; a failure has success = false,
\* a non-empty error, empty markdown and no images; a success has error = None.
C10_FailureShape ==
    ppc = "done" =>
        /\ result # <<>>
        /\ ~result.success =>
              /\ result.error # <<>> /\ result.error # None
              /\ result.markdown = <<>>
              /\ result.images = <<>>
        /\ result.success => result.error = None


-----------------------------------------------------------------------------
(* Properties of table detection and of the ContentOrderer (SpecPdf).      *)

\* _extract_pdf_tables_optimized has returned for the page of call c
Extracted(c) == pc[c] \in {"order", "emitted"}

\* the positions in the table list of call c that hold a table of the given type
TablesOfType(c, type) == {k \in 1..Len(tables[c]) : tables[c][k].type = type}

\* the text lines of the page meet the detector's four conditions
DetectorConditions(p) ==
    LET lines == CollectTextBlocks(p.blocks, 1)
        rows == DetectRows(p)
        col_counts == [r \in 1..Len(rows) |-> Len(rows[r])]
    IN  /\ Len(lines) >= 3
        /\ Len(rows) >= 2
        /\ \E m \in Modes(col_counts) :
              m > 1 /\ 10 * Count(col_counts, m) >= 6 * Len(rows)

\* C16: when the detector runs (no native table was accepted) it emits a table
\* exactly when the page has at least 3 non-empty text lines, they cluster into at
\* least 2 rows, the modal column count is above 1 and at least 0.6 of the rows have
\* it; otherwise it emits no table and records no consumed block index.
C16_DetectorIff ==
    \A c \in CallIds :
        (Extracted(c) /\ TablesOfType(c, "standard") = {}) =>
            /\ HasDetected(c) <=> DetectorConditions(page[c])
            /\ HasDetected(c) => last_table_block_indices # {}
            /\ ~HasDetected(c) => tables[c] = <<>> /\ last_table_block_indices = {}

\* three clustered rows, two of them with the modal count 2: the share 2/3 passes
C16_Witness ==
    /\ HasDetected(1)
    /\ LET rows == DetectRows(page[1])
       IN  Len(rows) = 3 /\ \E r \in 1..3 : Len(rows[r]) = 1
    /\ last_table_block_indices # {}

\* the cells of the clustered rows the modal test kept (keep = TRUE) or rejected
RowCells(p, keep) ==
    LET rows == DetectRows(p)
        col_counts == [r \in 1..Len(rows) |-> Len(rows[r])]
        m == CHOOSE m \in Modes(col_counts) :
                 m > 1 /\ 10 * Count(col_counts, m) >= 6 * Len(rows)
    IN  UNION {{rows[r][k] : k \in 1..Len(rows[r])} :
                  r \in {q \in 1..Len(rows) : (Len(rows[q]) = m) = keep}}

\* the emitted blocks of call c of the given type that show the text t
Showing(c, type, t) ==
    {k \in 1..Len(content_blocks[c]) :
        LET b == content_blocks[c][k]
        IN  /\ b.type = type
            /\ IF type = "table"
               THEN \E l \in 1..Len(b.content) : IsCellOf(t, b.content[l])
               ELSE Contains(b.content, t)}

\* C17 (as claimed): on a page with a detected table the text of every row the
\* modal test rejected is discarded: it is in no emitted table and in no emitted
\* text block, whichever block its line belongs to.
C17_RejectedDiscarded ==
    \A c \in CallIds :
        (Routed(c) /\ HasDetected(c)) =>
            \A cell \in RowCells(page[c], FALSE) :
                Showing(c, "table", cell.text) = {} /\ Showing(c, "text", cell.text) = {}

\* C17 (amended): the text of a rejected row is never in the table; it is discarded
\* when its block also holds a line of a kept row, and it is emitted in the Text
\* block of its own block index when its block holds no line of a kept row.
C17_RejectedByBlock ==
    \A c \in CallIds :
        (Routed(c) /\ HasDetected(c)) =>
            \A cell \in RowCells(page[c], FALSE) :
                LET shared == \E kept \in RowCells(page[c], TRUE) :
                                  kept.block_idx = cell.block_idx
                IN  /\ Showing(c, "table", cell.text) = {}
                    /\ shared => Showing(c, "text", cell.text) = {}
                    /\ ~shared =>
                          /\ Cardinality(Showing(c, "text", cell.text)) = 1
                          /\ \A k \in Showing(c, "text", cell.text) :
                                content_blocks[c][k].sort_key[2] = cell.block_idx

\* a rejected row whose line shares its block with a cell of the table
C17_Witness ==
    /\ Routed(1) /\ HasDetected(1)
    /\ \E cell \in RowCells(page[1], FALSE) :
          /\ \E kept \in RowCells(page[1], TRUE) : kept.block_idx = cell.block_idx
          /\ Showing(1, "text", cell.text) = {}

\* C18: text detection contributes only when no native table was accepted, and at
\* most one table: the table list never holds both a standard and a detected
\* table, and never more than one detected table.
C18_StandardOrOneDetected ==
    \A c \in CallIds :
        Extracted(c) =>
            LET page_num == pages_done[c] - (IF pc[c] = "emitted" THEN 1 ELSE 0)
            IN  /\ TablesOfType(c, "standard") = {} \/ TablesOfType(c, "detected") = {}
                /\ Cardinality(TablesOfType(c, "detected")) <= 1
                /\ TablesOfType(c, "detected") # {} =>
                      \A k \in 1..Len(page[c].native) :
                          \/ page[c].native[k].data = <<>>
                          \/ convert_pdf_table_to_markdown(
                                 page[c].native[k].data, page_num, 0) = <<>>

\* a native table was accepted on a page whose text lines the detector would accept
C18_Witness ==
    /\ Extracted(1)
    /\ TablesOfType(1, "standard") # {}
    /\ DetectorConditions(page[1])

\* C19: a detected table is emitted exactly once, at the position (block index and
\* y) of the smallest consumed block index, and no other consumed block emits
\* anything.
C19_OnceAtSmallest ==
    \A c \in CallIds :
        (Routed(c) /\ HasDetected(c)) =>
            LET hits == {k \in 1..Len(content_blocks[c]) :
                            content_blocks[c][k].type = "table"}
            IN  /\ Cardinality(hits) = 1
                /\ \A k \in hits :
                      LET b == content_blocks[c][k]
                      IN  /\ b.content = tables[c][1].content
                          /\ b.sort_key[2] \in last_table_block_indices
                          /\ \A j \in last_table_block_indices : b.sort_key[2] <= j
                          /\ b.y_pos = page[c].blocks[b.sort_key[2] + 1].bbox[2]
                /\ \A k \in 1..Len(content_blocks[c]) :
                      k \notin hits =>
                          content_blocks[c][k].sort_key[2] \notin last_table_block_indices

\* a table drawn from two blocks, with an unconsumed block before them
C19_Witness ==
    /\ Routed(1) /\ HasDetected(1)
    /\ Cardinality(last_table_block_indices) >= 2
    /\ 0 \notin last_table_block_indices
    /\ \E k \in 1..Len(content_blocks[1]) : content_blocks[1][k].sort_key[2] = 0

\* the bbox lies within the bbox of an accepted native table of call c, enlarged by
\* slack units on every side
Within(c, bbox, slack) ==
    \E k \in TablesOfType(c, "standard") :
        LET t == tables[c][k].bbox
        IN  /\ t[1] - slack <= bbox[1] /\ bbox[3] <= t[3] + slack
            /\ t[2] - slack <= bbox[2] /\ bbox[4] <= t[4] + slack

\* the emitted blocks of call c that come from block i (1-based) of the page
EmittedFor(c, i) ==
    {k \in 1..Len(content_blocks[c]) : content_blocks[c][k].sort_key[2] = i - 1}

\* block i of the page has something to emit: a text block with a non-empty line
\* that the detected table has not consumed, an image block with an image left
Emittable(c, i) ==
    LET blocks == page[c].blocks
    IN  IF blocks[i].type = 0
        THEN BlockTexts(page[c], i) # {} /\ (i - 1) \notin last_table_block_indices
        ELSE Cardinality({j \in 1..i : blocks[j].type = 1}) <= Len(page[c].images)

\* C20 (as claimed): every text block and every image block whose bbox lies within
\* a native table's bbox enlarged by 5 is left out of the ContentOrderer's output,
\* and no block outside all of them is left out on this ground.
C20_WithinTableOmitted ==
    \A c \in CallIds :
        Routed(c) =>
            \A i \in 1..Len(page[c].blocks) :
                IF Within(c, page[c].blocks[i].bbox, 5)
                THEN EmittedFor(c, i) = {}
                ELSE Emittable(c, i) => EmittedFor(c, i) # {}

\* C20 (amended): every text block whose bbox lies within a native table's bbox
\* enlarged by 5 is left out, no text block outside all of them is left out on this
\* ground, and an image block is never left out on this ground.
C20_TextWithinTableOmitted ==
    \A c \in CallIds :
        Routed(c) =>
            \A i \in 1..Len(page[c].blocks) :
                IF page[c].blocks[i].type = 0 /\ Within(c, page[c].blocks[i].bbox, 5)
                THEN EmittedFor(c, i) = {}
                ELSE Emittable(c, i) => EmittedFor(c, i) # {}

\* a text block inside the slack but not inside the table's bbox is left out, an
\* image block inside a table's enlarged bbox is emitted
C20_Witness ==
    /\ Routed(1)
    /\ \E i, j \in 1..Len(page[1].blocks) :
          /\ page[1].blocks[i].type = 0 /\ BlockTexts(page[1], i) # {}
          /\ Within(1, page[1].blocks[i].bbox, 5)
          /\ ~Within(1, page[1].blocks[i].bbox, 0)
          /\ EmittedFor(1, i) = {}
          /\ page[1].blocks[j].type = 1
          /\ Within(1, page[1].blocks[j].bbox, 5)
          /\ EmittedFor(1, j) # {}


-----------------------------------------------------------------------------
(* Properties of _clean_markdown (SpecClean).                              *)

\* the line has no character other than whitespace
IsBlank(line) == \A k \in 1..Len(line) : line[k] \in Whitespace

\* the lines of the cleaned markdown
OutputLines == SplitLines(result_markdown, <<>>)

\* C14 (as claimed): for any list of rendered lines the output of _clean_markdown
\* has no leading and no trailing blank line, a run of 3 or more blank lines of the
\* input (whitespace-only lines included) comes out as exactly 2 blank lines, and
\* the output never has 3 or more consecutive blank lines.
C14_NoThreeBlankLines ==
    unit_state = "cleaned" =>
        LET out == OutputLines
            in == SplitLines(join(<<"\n">>, markdown_lines), <<>>)
            n == Len(out)
        IN  /\ result_markdown # <<>> => ~IsBlank(out[1]) /\ ~IsBlank(out[n])
            /\ \A k \in 1..(n - 2) :
                  ~(IsBlank(out[k]) /\ IsBlank(out[k + 1]) /\ IsBlank(out[k + 2]))
            /\ (\E k \in 2..(Len(in) - 3) :
                    /\ ~IsBlank(in[k - 1]) /\ ~IsBlank(in[k + 3])
                    /\ IsBlank(in[k]) /\ IsBlank(in[k + 1]) /\ IsBlank(in[k + 2]))
               => \E k \in 1..(n - 1) : IsBlank(out[k]) /\ IsBlank(out[k + 1])


-----------------------------------------------------------------------------
(* Properties of the returned dictionary (SpecParse).                      *)

\* the fields of the output contract
ResultFields == {"success", "markdown", "images", "file_type", "error", "file_info"}

\* C11 (as claimed): every dictionary parse_document returns, for a success and for
\* a failure and for every file type, has the six fields success, markdown, images,
\* file_type, error and file_info.
C11_SixFields ==
    ppc = "done" => ResultFields \subseteq DOMAIN result

\* C15 (as claimed): for every supported format a successful result whose assembled
\* markdown is empty carries the fixed placeholder text, so no successful result
\* has an empty markdown.
C15_NeverEmptyMarkdown ==
    (ppc = "done" /\ result.success) =>
        /\ result.markdown # <<>>
        /\ strip(clean_markdown(env.content)) = <<>> =>
              result.markdown \in {EmptyNote("docx"), EmptyNote("pdf")}


-----------------------------------------------------------------------------
(* Properties of the DOCX header and footer filter (SpecDocx).             *)

\* one of the four noise rules holds for the stripped text t of the paragraph at
\* doc_pos
NoiseRule(t) ==
    \/ (\A k \in 1..Len(t) : t[k] \in Digits) /\ Len(t) <= 4
    \/ MatchesPagePattern(t)
    \/ Len(t) < 100 /\ Occurrences > 3
    \/ Len(t) < 150 /\ \E keyword \in footer_keywords : Contains(lower(t), keyword)

\* the line that shows the image with the given relationship id
ImageLine(rel_id) ==
    <<"!", "[", "I", "m", "a", "g", "e", "]", "(">>
        \o DocRels[CHOOSE k \in 1..Len(DocRels) : DocRels[k].rel_id = rel_id].url \o <<")">>

\* C13: with filtering enabled a paragraph is dropped entirely (no text, no
\* placeholder, no blank line, no inline image is appended) exactly when its text
\* is non-empty and one of the four noise rules holds; every other paragraph
\* appends its rendering (its text when it has one, then its inline images); with
\* filtering disabled no paragraph is dropped.
C13_DroppedIffNoise ==
    [][ParagraphStep =>
          LET p == doc[doc_pos]
              t == strip(p.text)
              n == Len(doc_markdown)
              added == SubSeq(doc_markdown', n + 1, Len(doc_markdown'))
          IN  IF filter_headers_footers /\ t # <<>> /\ NoiseRule(t)
              THEN doc_markdown' = doc_markdown
              ELSE /\ Len(doc_markdown') > n
                   /\ SubSeq(doc_markdown', 1, n) = doc_markdown
                   /\ t # <<>> => Contains(added[1], t)
                   /\ \A e \in 1..Len(p.embeds) :
                         \E k \in 1..Len(added) : added[k] = ImageLine(p.embeds[e])]_vars

\* with filtering enabled the document <<7, Page 2, Copyright x (with its image),
\* x, empty>> has been traversed: only the last two paragraphs left lines
C13_Witness ==
    /\ filter_headers_footers
    /\ doc_pos = 6
    /\ [i \in 1..Len(doc) |-> doc[i].text] =
          <<<<"7">>, <<"P", "a", "g", "e", " ", "2">>, CopyrightText, <<"x">>, <<>>>>
    /\ doc[3].embeds # <<>>
    /\ doc_markdown = <<<<"x">>, <<>>, <<>>>>


-----------------------------------------------------------------------------
(* Properties of the unit loops (SpecUnits).                               *)

\* the texts the unit at position i of the body shows when nothing fails in it: the
\* text of a paragraph or page, the cells of a table, the images that can be read
UnitShows(i) ==
    LET u == body.units[i]
        urls == {UnitRels(i)[k].url : k \in {j \in 1..2 : UnitRels(i)[j].outcome = "ok"}}
    IN  IF u.raises THEN {}
        ELSE IF u.tag = "tbl" THEN {u.rows[r][1] : r \in 1..Len(u.rows)}
        ELSE IF u.tag = "p" THEN {u.text} \cup (IF u.embeds # <<>> THEN urls ELSE {})
        ELSE {u.lines[1]} \cup (IF u.images # <<>> THEN urls ELSE {})

\* every text the first n units show is in the string s, and the texts of an
\* earlier unit come before those of a later one
ShownInOrder(s, n) ==
    /\ \A i \in 1..n : \A t \in UnitShows(i) : Contains(s, t)
    /\ \A i, j \in 1..n :
          i < j => \A t \in UnitShows(i), v \in UnitShows(j) :
                       FirstIndex(s, t) < FirstIndex(s, v)

\* C12: a unit that fails (a PDF page, a DOCX table, a DOCX paragraph, an image)
\* never aborts the document: an exception leaves the parser only when the
\* document cannot be opened; every later unit is processed in order; the output
\* of every unit that did not fail is in the final markdown; the result has
\* success = true.
C12_UnitFailureContained ==
    /\ unit_state = "raised" => body = <<>>
    /\ unit_state = "loop" =>
          ShownInOrder(FlattenLines(markdown_lines), unit_pos - 1)
    /\ unit_state = "done" =>
          /\ unit_pos = Len(body.units) + 1
          /\ result.success /\ result.error = None
          /\ result.markdown = result_markdown
          /\ ShownInOrder(result_markdown, Len(body.units))

\* a DOCX document was returned whose first element is a paragraph that raised,
\* its second a table that could not be read, its third a paragraph with an image
\* that failed and one that did not, its fourth a table
C12_Witness ==
    /\ unit_state = "done" /\ body.file_type = "docx" /\ Len(body.units) = 4
    /\ body.units[1].tag = "p" /\ body.units[1].raises
    /\ body.units[2].tag = "tbl" /\ body.units[2].raises
    /\ body.units[3].tag = "p" /\ body.units[3].embeds # <<>>
    /\ body.units[4].tag = "tbl" /\ ~body.units[4].raises
    /\ Contains(result_markdown, TableFailedNote)

-----------------------------------------------------------------------------
(* The scratch field across the pages of one call (SpecPdf).               *)

\* the index sets the TableDetector records when it runs on page p and accepts
RecordedFor(p, page_num) ==
    IF StandardTables(p.native, 1, page_num, 0) # <<>> THEN {}
    ELSE LET rows == DetectRows(p)
             col_counts == [r \in 1..Len(rows) |-> Len(rows[r])]
         IN  {detect_tables_from_text_optimized(p, page_num, m).indices :
                 m \in {n \in (IF rows = <<>> THEN {0} ELSE Modes(col_counts)) :
                           detect_tables_from_text_optimized(p, page_num, n).found}}

\* C21: in a sequential parse, whenever the ContentOrderer is about to run for a
\* page, the scratch field of consumed indices is empty or is exactly the set the
\* TableDetector recorded for that same page; what an earlier page recorded (a
\* failed page and a page with a native table included) is never used later.
C21_OwnIndicesOnly ==
    \A c \in CallIds :
        pc[c] = "order" =>
            \/ last_table_block_indices = {}
            \/ last_table_block_indices \in RecordedFor(page[c], pages_done[c])

\* a later page with an accepted native table reaches the ContentOrderer with the
\* scratch field empty although its own text lines would have been consumed
C21_Witness ==
    /\ pc[1] = "order"
    /\ pages_done[1] >= 1
    /\ TablesOfType(1, "standard") # {}
    /\ DetectorConditions(page[1])
    /\ last_table_block_indices = {}

-----------------------------------------------------------------------------
(* Two calls on one parser instance (SpecPdfShared).                       *)

\* no call other than c has started: the instance serves one document
OnlyCall(c) == \A d \in CallIds \ {c} : pc[d] = "idle" /\ pages_done[d] = 0

\* the page of call c went through the ContentOrderer and a text block outside
\* every native table, which the page's own detection did not consume, is missing
Suppressed(c) ==
    /\ Routed(c)
    /\ TablesOfType(c, "standard") # {}
    /\ \E i \in 1..Len(page[c].blocks) :
          /\ page[c].blocks[i].type = 0 /\ BlockTexts(page[c], i) # {}
          /\ ~Within(c, page[c].blocks[i].bbox, 5)
          /\ EmittedFor(c, i) = {}

\* the page of call c went through the ContentOrderer with a detected table and
\* no table was emitted
NotPlaced(c) ==
    /\ Routed(c)
    /\ HasDetected(c)
    /\ \A k \in 1..Len(content_blocks[c]) : content_blocks[c][k].type # "table"

\* C22: one parser instance is not safe for concurrent use.  As long as a call is
\* the only one on the instance, its ContentOrderer reads the indices of its own
\* page, no text block outside the native tables is suppressed and a detected
\* table is placed; the states where the ContentOrderer has read what another
\* call wrote or reset need two calls interleaved on the instance.
C22_SingleCallSafe ==
    \A c \in CallIds :
        OnlyCall(c) =>
            /\ pc[c] = "order" =>
                  IF HasDetected(c)
                  THEN last_table_block_indices \in RecordedFor(page[c], pages_done[c])
                  ELSE last_table_block_indices = {}
            /\ ~Suppressed(c)
            /\ ~NotPlaced(c)

\* call 1 has emitted a page with a native table while call 2 had recorded the
\* indices of its own detected table: text blocks of call 1 are suppressed
C22_Witness ==
    /\ Suppressed(1)
    /\ pc[2] # "idle"

\* call 1 had detected a table, call 2 reset the field before call 1's
\* ContentOrderer ran: the table of call 1 is not placed
C22_TableLost ==
    /\ NotPlaced(1)
    /\ pc[2] # "idle"

-----------------------------------------------------------------------------
(* Escaping and header inference in the renderers (SpecTable).             *)

\* the cell delimiters of a line: the pipes no backslash precedes
UnescapedPipes(line) ==
    Cardinality({i \in 1..Len(line) : line[i] = "|" /\ (i = 1 \/ line[i - 1] # "\\")})

\* a cell's text with its newlines as line-break markers and its pipes escaped
Escaped(cell) == replace(replace(strip(cell), "\n", BR), "|", <<"\\", "|">>)

\* every row of the matrix has as many cells as the first
Rectangular(td) == \A r \in 1..Len(td) : Len(td[r]) = Len(td[1])

\* C23 (as claimed): in every rendered table, whichever renderer, each cell text is
\* shown (header cells included) with its newlines turned into line-break markers
\* and its pipes escaped, so every grid line is one line and has as many
\* unescaped delimiters as the header line.
C23_CellsEscaped ==
    (renderer # "none" /\ Rectangular(table_data)) =>
        LET grid == GridLines(markdown_table)
        IN  /\ \A i \in 1..Len(grid) :
                  /\ ~Contains(grid[i], <<"\n">>)
                  /\ UnescapedPipes(grid[i]) = UnescapedPipes(grid[1])
            /\ grid # <<>> =>
                  \A r \in 1..Len(table_data) : \A c \in 1..Len(table_data[r]) :
                      LET cell == table_data[r][c]
                      IN  (cell # None /\ Contains(cell, <<"\n">>)) =>
                              \E i \in 1..Len(grid) : IsCellOf(Escaped(cell), grid[i])

\* the text of an input cell: None stands for the empty string
CellText(cell) == IF cell = None THEN <<>> ELSE strip(cell)

\* row 0 of the matrix does not look like a header: every cell is empty or is a
\* number of at most 3 digits
Row0IsData(td) ==
    \A c \in 1..Len(td[1]) :
        LET h == CellText(td[1][c])
        IN  h = <<>> \/ (isdigit(h) /\ Len(h) <= 3)

\* C24 (as claimed): the PDF and the spreadsheet renderer render row 0 as a data
\* row under generated column labels when each of its cells is empty or a number
\* of at most 3 digits, and otherwise as the header line with a generated label
\* for each empty cell; no header cell is empty, and row 0 is shown exactly once.
C24_HeaderInference ==
    (renderer \in {"pdf", "list"} /\ table_data # <<>>) =>
        LET grid == GridLines(markdown_table)
        IN  /\ grid # <<>>
            /\ ~Contains(grid[1], <<"|", " ", " ", "|">>)
            /\ IF Row0IsData(table_data)
               THEN HeaderGenerated(markdown_table) /\ Len(grid) = 2 + Len(table_data)
               ELSE /\ Len(grid) = 1 + Len(table_data)
                    /\ \A c \in 1..Len(table_data[1]) :
                          LET h == CellText(table_data[1][c])
                          IN  IF h = <<>> THEN IsCellOf(ColumnLabel(c), grid[1])
                              ELSE Contains(h, <<"\n">>) \/ IsCellOf(Escaped(h), grid[1])

-----------------------------------------------------------------------------
(* Properties of the ParagraphClassifier (SpecPara).                       *)

\* the paragraph has no heading, title or subtitle style and is not centred
Unstyled(p) ==
    /\ ~startswith(p.style_name, HeadingPrefix)
    /\ lower(p.style_name) \notin {lower(TitleStyle), lower(SubtitleStyle)}
    /\ p.alignment # "CENTER"

\* the text is <number><. or )><whitespace><rest>
OrderedPattern(t) ==
    LET b == RunEnd(t, 1, Digits)
        w == RunEnd(t, b + 1, Whitespace)
    IN  b > 1 /\ b <= Len(t) /\ t[b] \in {".", ")"} /\ w > b + 1 /\ w <= Len(t)

\* the text starts with a bullet glyph or an unordered marker
UnorderedPattern(t) == t # <<>> /\ t[1] \in BulletChars

\* C25 (as claimed): a paragraph without heading or title style that is not
\* centred, does not match the ordered-list pattern and does not start with a
\* bullet glyph or unordered marker is rendered as a plain paragraph, its text
\* unchanged; a paragraph rendered as an unordered list item has lost its marker.
C25_PlainOrStripped ==
    LET t == strip(paragraph.text)
    IN  (para_lines # <<>> /\ t # <<>> /\ Unstyled(paragraph) /\ ~OrderedPattern(t)) =>
            IF UnorderedPattern(t)
            THEN para_lines = <<<<"-", " ">> \o lstrip(Tail(t)), <<>>>>
            ELSE para_lines = <<t, <<>>>>

\* the heading of the given level for the text
HeadingLine(level, t) == Repeat("#", level) \o <<" ">> \o t

\* C26 (as claimed): a paragraph of style title is rendered as a level-1 heading,
\* one of style subtitle as a level-2 heading, and one with an explicit heading
\* style at the level of the style table, level 1 when the table lacks the style.
C26_HeadingLevels ==
    LET t == strip(paragraph.text)
        style == paragraph.style_name
    IN  (para_lines # <<>> /\ t # <<>>) =>
            /\ \A n \in 1..6 : style = HeadingStyle(n) => para_lines = <<HeadingLine(n, t), <<>>>>
            /\ (startswith(style, HeadingPrefix) /\ \A n \in 1..6 : style # HeadingStyle(n))
                   => para_lines = <<HeadingLine(1, t), <<>>>>
            /\ lower(style) = lower(TitleStyle) => para_lines = <<HeadingLine(1, t), <<>>>>
            /\ lower(style) = lower(SubtitleStyle) => para_lines = <<HeadingLine(2, t), <<>>>>

-----------------------------------------------------------------------------
(* The .doc route of parse_document (SpecParse).                           *)

\* the call is for an existing .doc file and the parser has a converter
DocCall == env # <<>> /\ env.exists /\ env.ext = ".doc" /\ env.doc_converter

\* the tool ended with return code 0, and the file it was to write exists
ToolExitedZero == env.converter \in {"ok", "no_output"}
OutputFileExists == env.converter = "ok"

\* what the converter says about a failed conversion
ConverterMessage ==
    CASE env.converter = "failed"    -> <<"conversion failed: ", "<stderr>">>
      [] env.converter = "no_output" -> <<"converted file not produced: ", "<path>">>
      [] env.converter = "timeout"   -> <<"conversion timed out (60 s)">>
      [] OTHER -> <<>>

\* C27: for a .doc input the converter is invoked at most once per call; the
\* converted file is parsed only when the tool ended with code 0 and its output
\* file exists; after a failed conversion (non-zero exit, timeout, missing output)
\* the call ends with a failure result that carries the converter's message, and
\* no DOCX parsing took place.
C27_ConversionTerminal ==
    /\ conversions <= 1
    /\ ppc = "converted" => DocCall /\ ToolExitedZero /\ OutputFileExists
    /\ (DocCall /\ ppc \in {"finally", "done"}) =>
          /\ conversions = 1
          /\ IF ToolExitedZero /\ OutputFileExists
             THEN temp_file # "none"
             ELSE /\ temp_file = "none"
                  /\ ~result.success
                  /\ result.error = <<"DOC conversion failed: ">> \o ConverterMessage

\* a conversion that timed out ended the call with a failure after one invocation
C27_Witness ==
    /\ ppc = "done" /\ DocCall
    /\ env.converter = "timeout" /\ env.reader = "ok"
    /\ conversions = 1 /\ ~result.success

\* C30 (as claimed): after a successful conversion the temporary .docx no longer
\* exists when parse_document returns if cleanup_temp is true, whether the DOCX
\* parsing succeeded or failed; it is left in place if cleanup_temp is false; after
\* a failed conversion nothing is deleted.
C30_TempFileGone ==
    (ppc = "done" /\ DocCall) =>
        IF env.converter = "ok"
        THEN temp_file = (IF env.cleanup_temp THEN "removed" ELSE "present")
        ELSE temp_file = "none"

\* C30 (amended): with cleanup_temp true the temporary .docx is gone on return
\* when its removal succeeded, whether the DOCX parsing succeeded or failed; when
\* os.remove raises, the error is logged, the file stays and the result is
\* returned as it was; with cleanup_temp false the file is left in place; after a
\* failed conversion nothing is deleted.
C30_TempFileGoneIfRemovable ==
    (ppc = "done" /\ DocCall) =>
        IF env.converter = "ok"
        THEN /\ temp_file = (IF env.cleanup_temp /\ env.remove_ok
                             THEN "removed" ELSE "present")
             /\ result.success <=> env.reader = "ok"
        ELSE temp_file = "none"

\* the converted file could not be parsed and has been removed all the same
C30_Witness ==
    /\ ppc = "done" /\ DocCall
    /\ env.converter = "ok" /\ env.reader # "ok" /\ env.cleanup_temp
    /\ ~result.success
    /\ temp_file = "removed"

-----------------------------------------------------------------------------
(* Images of a PDF page (SpecPdf).                                         *)

\* the lines of the page's markdown that show the image url
ImageLines(c, url) ==
    {l \in 1..Len(markdown_content[c]) :
        \/ markdown_content[c][l] = ImageMarkdown(url)
        \/ markdown_content[c][l] = <<"!", "[", "I", "m", "a", "g", "e", "]", "(">> \o url \o <<")">>}

\* the 1-based position of the k-th picture block among the blocks of the page
PictureBlock(p, k) ==
    CHOOSE i \in 1..Len(p.blocks) :
        /\ p.blocks[i].type = 1
        /\ Cardinality({j \in 1..i : p.blocks[j].type = 1}) = k

PictureBlocks(p) == Cardinality({j \in 1..Len(p.blocks) : p.blocks[j].type = 1})

\* C28 (as claimed): on every PDF page, with or without tables, each image accepted
\* for the page is emitted exactly once in the page's markdown, and on a page with
\* tables the k-th accepted image stands at the position of the k-th picture block.
C28_ImagesOnce ==
    \A c \in CallIds :
        pc[c] = "emitted" =>
            \A k \in 1..Len(page[c].images) :
                /\ Cardinality(ImageLines(c, page[c].images[k])) = 1
                /\ tables[c] # <<>> =>
                      /\ k <= PictureBlocks(page[c])
                      /\ \E b \in 1..Len(content_blocks[c]) :
                            LET i == PictureBlock(page[c], k)
                            IN  /\ content_blocks[c][b].type = "image"
                                /\ content_blocks[c][b].content = ImageMarkdown(page[c].images[k])
                                /\ content_blocks[c][b].sort_key =
                                       <<page[c].blocks[i].bbox[2], i - 1>>

-----------------------------------------------------------------------------
(* What an accepted detected table looks like (SpecPdf).                   *)

\* the cell counts of the clustered rows of a page
ColCounts(p) == [r \in 1..Len(DetectRows(p)) |-> Len(DetectRows(p)[r])]

\* C29: whenever the TableDetector accepts, one column count is strictly more
\* frequent than every other (the tie-break of the mode has nothing to decide),
\* the table has at least 2 rows, each of at least 2 non-empty cells, the set of
\* consumed indices is not empty, and the rendered table has a header line, a
\* separator line and at least one data line.
C29_AcceptedTableShape ==
    \A c \in CallIds :
        (HasDetected(c) /\ pc[c] = "order") =>
            LET rows == DetectRows(page[c])
                col_counts == ColCounts(page[c])
                grid == GridLines(tables[c][1].content)
            IN  /\ Cardinality(Modes(col_counts)) = 1
                /\ \E m \in Modes(col_counts) :
                      /\ \A r \in 1..Len(rows) :
                            Len(rows[r]) # m =>
                                Count(col_counts, Len(rows[r])) < Count(col_counts, m)
                      /\ m >= 2
                      /\ Count(col_counts, m) >= 2
                      /\ \A r \in 1..Len(rows) : \A k \in 1..Len(rows[r]) :
                            strip(rows[r][k].text) # <<>>
                      /\ Len(grid) >= 3
                      /\ \A l \in 1..Len(grid) : CellsInLine(grid[l]) = m
                /\ last_table_block_indices # {}
                /\ grid[2] = GridLine(Repeat(Dashes, CellsInLine(grid[1])))

\* an accepted table beside a row of another cell count: two rows of the modal
\* count give a header line, the separator and one data line
C29_Witness ==
    /\ HasDetected(1) /\ pc[1] = "order"
    /\ Cardinality({ColCounts(page[1])[r] : r \in 1..Len(ColCounts(page[1]))}) = 2
    /\ Len(GridLines(tables[1][1].content)) = 3
    /\ Cardinality(last_table_block_indices) >= 2

=============================================================================
